---- MODULE Spec2Model ----
(***************************************************************************)
(* Causal pair filter (causal_filter.py), target selector                  *)
(* (target_source_selector.py), brand analyzer (brand_analyzer.py),        *)
(* visibility scorer (run_simulator.py), explainer (explainer_agent.py),   *)
(* rule aggregator (rule_aggregator.py), _clean_json and call_ollama       *)
(* (ollama_utils.py) of the bias-mitigation pipeline.                      *)
(*                                                                         *)
(* Units.  Decimal numbers of the program are integers in a fixed unit:     *)
(*   brand scores, visibility scores             : ten-thousandths (Scale) *)
(*   propensities, weights, opportunity scores   : 10^-8 (Fine)            *)
(*   ratings, W_LENGTH, W_BRAND, W_RATING        : tenths                  *)
(* so 0.90 is 90000000 as a propensity, a visibility of 0.2 is 2000 and a  *)
(* rating of 4.0 is 40.  Where the program's result depends on the binary  *)
(* rounding of a double (a comparison at equality, round() at a half) the  *)
(* model works the rounding out from the decimal.  The visibility scorer's *)
(* weights and total_score are doubles in the model too: sign, mantissa    *)
(* and exponent, every operation rounded as the processor rounds it.       *)
(***************************************************************************)
EXTENDS Integers, Sequences, FiniteSets, TLC

VARIABLES
    pc,                   \* position of the running program
    logs,                 \* causal_filter: the queries of data/simulation_logs.json, in order
    item_map,             \* causal_filter: item_id -> catalog record (a dict: ids may be missing)
    qi,                   \* causal_filter: number of log entries consumed
    entry,                \* causal_filter: the log entry of the current iteration
    grouped_causal_data,  \* causal_filter: the groups appended so far
    causal_pairs_file,    \* data/causal_pairs.json: [written, data]
    rules,                \* target selector: the rules file read; explainer: the list in memory
    group_idx,            \* target selector: groups of the pairs file consumed
    pair_idx,             \* target selector: pairs of the current group consumed
    candidates,           \* target selector: the current query's candidates
    candidates_by_query,  \* target selector: query -> candidates (as a sequence of entries)
    candidates_file,      \* data/target_candidates.json: [written, data]
    brand_input,          \* brand analyzer: a product, its raw brand (None or a str) and title
    brand_keys,           \* brand analyzer: the keys derived from brand_input, by use
    brand_counts,         \* brand analyzer: Counter(raw_brands), key -> count
    brand_popularity,     \* data/brand_popularity.json: [written, data]
    prop_args,            \* propensity: two argument triples, the second raised in one factor
    propensities,         \* propensity: the values returned for prop_args
    response_text,        \* visibility scorer: the generated text, None or a str
    visibility,           \* visibility scorer: item id -> score returned for response_text
    run_no,               \* explainer: number of runs of run_explainer started
    ex_group,             \* explainer: groups of the pairs file consumed by the run
    ex_pair,              \* explainer: pairs of the current group consumed by the run
    seen_hashes,          \* explainer: hashes of the rule texts seen by the run
    processed_pairs_ids,  \* explainer: signatures the run skips
    llm_answers,          \* the LLM: (query, winner, loser) -> its answer, the same in every run
    llm_calls,            \* history: the LLM calls made, with run and outcome
    rules_after_complete, \* history: number of rules when a run first completed, -1 before
    rules_file,           \* explainer: data/optimization_rules.json on disk, [exists, complete, data]
    persisted,            \* history: the rules a completed save has written, over all runs
    clusters,             \* aggregator: cluster id -> the diagnoses of the cluster, in order
    cluster_no,           \* aggregator: clusters consumed by run_aggregation
    batch_no,             \* aggregator: batches of the current cluster summarized
    intermediate_lessons, \* aggregator: the batch summaries kept for the current cluster
    final_principles,     \* aggregator: the principles appended so far
    principles_file,      \* data/mgeo_principles.json: [written, data]
    agg_calls,            \* history: the LLM calls of the aggregator, with phase and answer
    retries,              \* call_ollama: the retries argument
    idx,                  \* call_ollama: the attempts that have failed
    tried_start_server,   \* call_ollama: whether the server start was tried
    requests_made,        \* history: the outcomes of the requests posted, in order
    slept,                \* history: seconds slept between attempts
    ollama_result,        \* call_ollama: the value returned, None before
    json_text,            \* _clean_json: the response text, a sequence of tokens
    json_result           \* _clean_json: how the call ended, [kind, value]

pureVars == <<brand_input, brand_keys, brand_counts, brand_popularity,
              prop_args, propensities, response_text, visibility>>

explainVars == <<run_no, ex_group, ex_pair, seen_hashes, processed_pairs_ids,
                 llm_answers, llm_calls, rules_after_complete>>

aggregateVars == <<clusters, cluster_no, batch_no, intermediate_lessons, final_principles,
                   principles_file, agg_calls>>

ollamaVars == <<retries, idx, tried_start_server, requests_made, slept, ollama_result>>

jsonVars == <<json_text, json_result>>

toolVars == <<aggregateVars, ollamaVars, jsonVars>>

auxVars == <<rules_file, persisted, toolVars>>

vars == <<pc, logs, item_map, qi, entry, grouped_causal_data, causal_pairs_file,
          rules, group_idx, pair_idx, candidates, candidates_by_query, candidates_file,
          pureVars, explainVars, auxVars>>

filterVars == <<logs, item_map, qi, entry, grouped_causal_data, causal_pairs_file>>
selectVars == <<rules, group_idx, pair_idx, candidates, candidates_by_query, candidates_file>>

(***************************************************************************)
(* Units and program constants                                             *)
(***************************************************************************)
Scale == 10^4

\* the unit of propensities, weights and opportunity scores
Fine == 10^8

W_LENGTH == 8
W_BRAND == 12
W_RATING == 12
THRESHOLD == 90000000
MAX_LEN == 2000
DEFAULT_RATING == 40
MIN_VIS == 1000
MIN_GAP == 2000

Min(a, b) == IF a < b THEN a ELSE b
Max(a, b) == IF a > b THEN a ELSE b

(***************************************************************************)
(* Python floats.  A float of the program is an IEEE double.  The model    *)
(* keeps the decimal x / 10^d a double was parsed or computed from (x and  *)
(* d integers) and derives in integer arithmetic where the double lies     *)
(* relative to that decimal.  The double nearest to x / 10^d is            *)
(* M / 2^k with 2^52 <= M < 2^53.                                          *)
(***************************************************************************)
RECURSIVE ShiftUp(_, _, _)
\* j more than the least number of doublings that bring x > 0 to m or above
ShiftUp(x, m, j) == IF x >= m THEN j ELSE ShiftUp(2 * x, m, j + 1)

RECURSIVE ShiftDown(_, _, _)
\* j more than the greatest number of halvings that leave x >= m at m or above
ShiftDown(x, m, j) == IF x \div 2 >= m THEN ShiftDown(x \div 2, m, j + 1) ELSE j

\* the k of the double nearest to x / 10^d, x > 0
Exponent(x, d) ==
    IF x >= 10^d THEN 52 - ShiftDown(x, 10^d, 0) ELSE 52 + ShiftUp(x, 10^d, 0)

RECURSIVE Doubled(_, _, _)
\* (x * 2^k) mod m, three doublings at a time
Doubled(x, k, m) ==
    IF k = 0 \/ x = 0 THEN x % m
    ELSE IF k >= 3 THEN Doubled((8 * (x % m)) % m, k - 3, m)
    ELSE Doubled((2 * (x % m)) % m, k - 1, m)

\* whether the integer part of x * 2^k / 10^d is odd
OddFloor(x, k, d) == Doubled(x, k, 2 * 10^d) >= 10^d

\* whether x * 2^k / 10^d is rounded up to the mantissa M: to the nearest
\* integer, a half to the even one
RoundsUp(x, k, d) ==
    LET r == Doubled(x, k, 10^d)
    IN IF 2 * r = 10^d THEN OddFloor(x, k, d) ELSE 2 * r > 10^d

\* whether the mantissa of the double nearest to x / 10^d is odd
OddMantissa(x, d) ==
    LET k == Exponent(x, d) IN OddFloor(x, k, d) # RoundsUp(x, k, d)

\* the representation error of the double nearest to x / 10^d: the integer e
\* with float(x / 10^d) - x / 10^d = e / (10^d * 2^k), k = Exponent(x, d)
FloatErr(x, d) ==
    IF x = 0 THEN 0
    ELSE LET k == Exponent(x, d)
             r == Doubled(x, k, 10^d)
         IN IF RoundsUp(x, k, d) THEN 10^d - r ELSE 0 - r

\* (w - l) < t on the doubles of the decimals w >= l >= 0 and t > 0, all in
\* units 10^-d: decided by the decimals unless w - l = t, where the sign of
\* float(w) - float(l) - float(t) and the rounding of the difference to the
\* doubles around float(t) decide
FloatDiffLess(w, l, t, d) ==
    IF w - l # t THEN w - l < t
    ELSE LET kt == Exponent(t, d)
             kw == Exponent(w, d)
             kl == IF l = 0 THEN kt ELSE Exponent(l, d)
             k == Max(kw, Max(kl, kt))
             s == FloatErr(w, d) * 2^(k - kw) - FloatErr(l, d) * 2^(k - kl)
                    - FloatErr(t, d) * 2^(k - kt)
             half_ulp == 10^d * 2^(k - kt)
         IN IF 2 * s # 0 - half_ulp THEN 2 * s < 0 - half_ulp
            ELSE OddMantissa(t, d)

\* a double given by a decimal and an offset: the double `ulps` doubles above
\* (below, if negative) the double nearest to near / 10^d
FloatOf(x) == [near |-> x, ulps |-> 0]

\* g * x for an int g >= 0 and the double x nearest to xd / 10^d: the exact
\* product g * float(xd / 10^d) rounded to the nearest double, a half to the
\* even mantissa
FloatTimes(g, xd, d) ==
    IF g * xd = 0 THEN FloatOf(0)
    ELSE LET t == g * xd
             kt == Exponent(t, d)
             kx == Exponent(xd, d)
             ulp == 10^d * 2^(kx - kt)
             q == Doubled(t, kt, 10^d) * 2^(kx - kt) + g * FloatErr(xd, d)
             n == q \div ulp
             r == q % ulp
             up == r > ulp - r \/ (r = ulp - r /\ (OddFloor(t, kt, d) # (n % 2 = 1)))
         IN [near |-> t,
             ulps |-> n + (IF up THEN 1 ELSE 0) - (IF RoundsUp(t, kt, d) THEN 1 ELSE 0)]

\* a > b on two doubles
FloatGreater(a, b) ==
    IF a.near # b.near THEN a.near > b.near ELSE a.ulps > b.ulps

\* the sign of (the double f) - f.near / 10^d
SignVsDecimal(f, d) ==
    IF f.ulps # 0 THEN f.ulps
    ELSE FloatErr(f.near, d)

\* round(f, n) for the double f and step = 10^(d - n), in units 10^-d: Python
\* rounds the exact value of the double, so a decimal halfway between two
\* multiples of step goes where its double lies, and to the even multiple
\* when the double is exactly halfway
RoundFloat(f, step, d) ==
    LET q == f.near \div step
        r == f.near % step
        s == SignVsDecimal(f, d)
    IN IF 2 * r < step THEN q * step
       ELSE IF 2 * r > step THEN (q + 1) * step
       ELSE IF s < 0 THEN q * step
       ELSE IF s > 0 THEN (q + 1) * step
       ELSE IF q % 2 = 0 THEN q * step ELSE (q + 1) * step

RECURSIVE LongDiv(_, _, _, _)
\* the quotient q of a division by b, remainder r, carried n decimals further
LongDiv(q, r, b, n) ==
    IF n = 0 THEN q
    ELSE LongDiv(q * 10 + (r * 10) \div b, (r * 10) % b, b, n - 1)

(***************************************************************************)
(* Long decimals: a number >= 0 as the sequence of its digits in base      *)
(* 10^4, the integer part first; the length fixes the precision.           *)
(***************************************************************************)
Base == 10^4

RECURSIVE MulFrom(_, _, _, _)
\* the digits 1..i of a * m + carry
MulFrom(a, m, i, carry) ==
    LET v == a[i] * m + carry
    IN IF i = 1 THEN <<v>>
       ELSE Append(MulFrom(a, m, i - 1, v \div Base), v % Base)

\* a * m for an int m >= 0
DecMulInt(a, m) == MulFrom(a, m, Len(a), 0)

RECURSIVE DivFrom(_, _, _, _)
\* the digits from the i-th on of the quotient, r being the remainder so far
DivFrom(a, dv, i, r) ==
    IF i > Len(a) THEN <<>>
    ELSE LET v == r * Base + a[i]
         IN <<v \div dv>> \o DivFrom(a, dv, i + 1, v % dv)

\* a / dv for an int dv > 0, the digits beyond the precision dropped
DecDivInt(a, dv) == DivFrom(a, dv, 1, 0)

RECURSIVE AddFrom(_, _, _, _)
AddFrom(a, b, i, carry) ==
    LET v == a[i] + b[i] + carry
    IN IF i = 1 THEN <<v>>
       ELSE Append(AddFrom(a, b, i - 1, v \div Base), v % Base)

DecAdd(a, b) == AddFrom(a, b, Len(a), 0)

RECURSIVE SubFrom(_, _, _, _)
SubFrom(a, b, i, borrow) ==
    LET v == a[i] - b[i] - borrow
    IN IF i = 1 THEN <<v>>
       ELSE Append(SubFrom(a, b, i - 1, IF v < 0 THEN 1 ELSE 0),
                   IF v < 0 THEN v + Base ELSE v)

\* a - b for a >= b
DecSub(a, b) == SubFrom(a, b, Len(a), 0)

RECURSIVE DecLess(_, _)
\* a < b on two long numbers of the same length
DecLess(a, b) ==
    /\ a # <<>>
    /\ \/ Head(a) < Head(b)
       \/ Head(a) = Head(b) /\ DecLess(Tail(a), Tail(b))

DecZero(n) == [k \in 1..n |-> 0]
DecOne(n) == [k \in 1..n |-> IF k = 1 THEN 1 ELSE 0]

RECURSIVE ExpTerms(_, _, _, _, _, _)
\* `count` steps of the series of exp(x) for x = num / (d1 * d2) from the k-th
\* term on: acc is <<the k-th term x^k / k!, the sum of the even terms before
\* it, the sum of the odd terms before it>>
ExpTerms(acc, num, d1, d2, k, count) ==
    IF count = 0 \/ acc[1] = DecZero(Len(acc[1])) THEN acc
    ELSE ExpTerms(<<DecDivInt(DecDivInt(DecMulInt(acc[1], num), d1), d2 * (k + 1)),
                    IF k % 2 = 0 THEN DecAdd(acc[2], acc[1]) ELSE acc[2],
                    IF k % 2 = 0 THEN acc[3] ELSE DecAdd(acc[3], acc[1])>>,
                  num, d1, d2, k + 1, count - 1)

RECURSIVE ExpSums(_, _, _, _, _)
\* the two sums of the whole series, taken eight terms at a time
ExpSums(acc, num, d1, d2, k) ==
    IF acc[1] = DecZero(Len(acc[1])) THEN acc
    ELSE ExpSums(ExpTerms(acc, num, d1, d2, k, 8), num, d1, d2, k + 8)

\* exp(-num / (d1 * d2)) to n digits of base 10^4: the even terms of the
\* series of exp minus its odd terms
ExpNeg(num, d1, d2, n) ==
    LET sums == ExpSums(<<DecOne(n), DecZero(n), DecZero(n)>>, num, d1, d2, 0)
    IN DecSub(sums[2], sums[3])

(***************************************************************************)
(* Doubles.  A double is the number (-1)^neg * m * 2^e: m is a natural     *)
(* number of any size, written in base 2^15 with the lowest digit first    *)
(* and the highest not 0 (<<>> is 0).  Every operation of the program on   *)
(* doubles is the exact operation followed by RoundDouble.                 *)
(***************************************************************************)
Radix == 2^15

Digit(a, i) == IF 1 <= i /\ i <= Len(a) THEN a[i] ELSE 0

\* a without its highest digits 0
Trim(a) ==
    LET used == {i \in 1..Len(a) : a[i] # 0}
    IN IF used = {} THEN <<>>
       ELSE SubSeq(a, 1, CHOOSE i \in used : \A j \in used : j <= i)

\* the int 0 <= n < 2^31 as a natural number, and back
NatOf(n) == Trim([i \in 1..3 |-> (n \div Radix^(i - 1)) % Radix])
NatInt(a) == Digit(a, 1) + Radix * Digit(a, 2) + Radix^2 * Digit(a, 3)

\* the number of bits of the int 0 < x < 2^30
IntBits(x) == CHOOSE b \in 1..30 : 2^(b - 1) <= x /\ x < 2^b

\* the number of bits of a: 0 for 0, else floor(log2(a)) + 1
NatBits(a) == IF a = <<>> THEN 0 ELSE 15 * (Len(a) - 1) + IntBits(a[Len(a)])

\* a + b: a carry enters the digit i when a lower digit overflows and every
\* digit between the two is full
NatAdd(a, b) ==
    LET n == Max(Len(a), Len(b)) + 1
        s == SubSeq([i \in 1..n |-> Digit(a, i) + Digit(b, i)], 1, n)
        carry == [i \in 1..n |->
                     IF \E j \in 1..(i - 1) :
                            s[j] >= Radix /\ \A k \in (j + 1)..(i - 1) : s[k] = Radix - 1
                     THEN 1 ELSE 0]
    IN Trim([i \in 1..n |-> (s[i] + carry[i]) % Radix])

\* a - b for a >= b
NatSub(a, b) ==
    LET n == Len(a)
        d == SubSeq([i \in 1..n |-> a[i] - Digit(b, i)], 1, n)
        borrow == [i \in 1..n |->
                      IF \E j \in 1..(i - 1) :
                             d[j] < 0 /\ \A k \in (j + 1)..(i - 1) : d[k] = 0
                      THEN 1 ELSE 0]
    IN Trim([i \in 1..n |-> (d[i] - borrow[i] + Radix) % Radix])

\* a < b
NatLess(a, b) ==
    \E i \in 1..Len(b) :
        /\ Digit(a, i) < b[i]
        /\ \A k \in (i + 1)..Max(Len(a), Len(b)) : Digit(a, k) = Digit(b, k)

\* a * d for an int 0 <= d <= Radix
NatMulDigit(a, d) ==
    NatAdd(Trim([i \in 1..Len(a) |-> (a[i] * d) % Radix]),
           Trim([i \in 1..(Len(a) + 1) |-> IF i = 1 THEN 0 ELSE (a[i - 1] * d) \div Radix]))

RECURSIVE NatMul(_, _)
\* a * b, a digit of b at a time
NatMul(a, b) ==
    IF a = <<>> \/ b = <<>> THEN <<>>
    ELSE LET rest == NatMul(a, Tail(b))
         IN IF rest = <<>> THEN NatMulDigit(a, Head(b))
            ELSE NatAdd(NatMulDigit(a, Head(b)), <<0>> \o rest)

\* a * 2^k: whole digits of 0 below, and each digit takes the high bits of
\* the digit under it
NatShl(a, k) ==
    IF a = <<>> THEN <<>>
    ELSE SubSeq([i \in 1..(k \div 15) |-> 0], 1, k \div 15)
         \o Trim([i \in 1..(Len(a) + 1) |->
                     ((Digit(a, i) * 2^(k % 15)) % Radix)
                     + ((Digit(a, i - 1) * 2^(k % 15)) \div Radix)])

\* a \div 2^k
NatShr(a, k) ==
    LET high == SubSeq(a, k \div 15 + 1, Len(a))
        low == 2^(k % 15)
    IN Trim([i \in 1..Len(high) |->
                high[i] \div low + (Digit(high, i + 1) % low) * (Radix \div low)])

\* whether a quotient goes up to the next integer: `twice` is twice its
\* remainder, `one` the divisor and `odd` tells that the quotient is odd
QuotientUp(twice, one, odd) == NatLess(one, twice) \/ (twice = one /\ odd)

\* q or q + 1 for q = a \div 2^k
RoundQuotient(q, a, k) ==
    IF QuotientUp(NatShl(NatSub(a, NatShl(q, k)), 1), NatShl(<<1>>, k), Digit(q, 1) % 2 = 1)
    THEN NatAdd(q, <<1>>)
    ELSE q

\* the integer nearest to a / 2^k, the even one of the two at a tie
RoundShift(a, k) ==
    IF k <= 0 THEN NatShl(a, 0 - k) ELSE RoundQuotient(NatShr(a, k), a, k)

\* a in base 2^5, and back
Fifths(a) ==
    SubSeq([j \in 1..(3 * Len(a)) |-> (a[(j + 2) \div 3] \div 32^((j - 1) % 3)) % 32],
           1, 3 * Len(a))
Unfifths(f) ==
    [i \in 1..(Len(f) \div 3) |-> f[3 * i - 2] + 32 * f[3 * i - 1] + 1024 * f[3 * i]]

RECURSIVE DivFromFifth(_, _, _, _, _)
\* `count` steps of the division of f by d from the digit i down: acc is <<the
\* digits of the quotient so far, the highest first, the remainder so far>>
DivFromFifth(f, d, i, acc, count) ==
    IF i = 0 \/ count = 0 \/ acc[2] < 0 THEN acc
    ELSE LET v == acc[2] * 32 + f[i]
         IN DivFromFifth(f, d, i - 1, <<Append(acc[1], v \div d), v % d>>, count - 1)

RECURSIVE DivFifths(_, _, _, _)
\* the whole division, six digits at a time
DivFifths(f, d, i, acc) ==
    IF acc[2] < 0 \/ i <= 0 THEN acc
    ELSE DivFifths(f, d, i - 6, DivFromFifth(f, d, i, acc, 6))

\* <<a \div d, a % d>> for an int 0 < d < 2^26: in base 2^5, where the
\* remainder with one more digit is an int
NatDivInt(a, d) ==
    LET f == Fifths(a)
        n == Len(f)
        qr == DivFifths(f, d, n, <<<<>>, 0>>)
    IN <<Trim(Unfifths([i \in 1..n |-> qr[1][n + 1 - i]])), qr[2]>>

\* the numbers (-1)^neg * m * 2^e
Binaries == [neg : BOOLEAN, m : Seq(0..(Radix - 1)), e : Int]

Zero == [neg |-> FALSE, m |-> <<>>, e |-> 0]
One == [neg |-> FALSE, m |-> <<1>>, e |-> 0]

\* the double nearest to x, the one of even mantissa at a tie: the mantissa is
\* cut to 53 bits
RoundDouble(x) ==
    IF NatBits(x.m) <= 53 THEN x
    ELSE LET k == NatBits(x.m) - 53
         IN [neg |-> x.neg, m |-> RoundShift(x.m, k), e |-> x.e + k]

ExactProduct(a, b) ==
    [neg |-> a.neg # b.neg, m |-> NatMul(a.m, b.m), e |-> a.e + b.e]

\* the sum of two numbers of one exponent e, of signs a_neg and b_neg and
\* mantissas ma and mb
SumAligned(a_neg, ma, b_neg, mb, e) ==
    IF a_neg = b_neg THEN [neg |-> a_neg, m |-> NatAdd(ma, mb), e |-> e]
    ELSE IF ma = mb THEN Zero
    ELSE IF NatLess(ma, mb) THEN [neg |-> b_neg, m |-> NatSub(mb, ma), e |-> e]
    ELSE [neg |-> a_neg, m |-> NatSub(ma, mb), e |-> e]

ExactSum(a, b) ==
    SumAligned(a.neg, NatShl(a.m, a.e - Min(a.e, b.e)),
               b.neg, NatShl(b.m, b.e - Min(a.e, b.e)), Min(a.e, b.e))

\* a + b and a * b on doubles
FloatAdd(a, b) == RoundDouble(ExactSum(a, b))
FloatMul(a, b) == RoundDouble(ExactProduct(a, b))

\* a * b + c with one rounding (the fused multiply-add of the processor)
Fma(a, b, c) == RoundDouble(ExactSum(ExactProduct(a, b), c))

\* a / d for a double a and an int 0 < d < 2^26: the quotient is taken to 58
\* bits or more, with one more bit that tells whether a remainder is left
FloatDivInt(a, d) ==
    IF a.m = <<>> THEN Zero
    ELSE LET k == 58 + IntBits(d)
             qr == NatDivInt(NatShl(a.m, k), d)
         IN RoundDouble([neg |-> a.neg,
                         m |-> NatAdd(NatShl(qr[1], 1), NatOf(IF qr[2] = 0 THEN 0 ELSE 1)),
                         e |-> a.e - k - 1])

\* float(n) for an int n
FloatOfInt(n) == [neg |-> n < 0, m |-> NatOf(IF n < 0 THEN 0 - n ELSE n), e |-> 0]

(***************************************************************************)
(* math.exp.  CPython's math.exp is the exp of the C library, which is not *)
(* correctly rounded: the model follows the C library of the interpreter   *)
(* (glibc 2.36, x86-64 with fused multiply-add).  exp(x) = 2^(k/128) *     *)
(* exp(r) with k the integer nearest to x * 128 / ln 2 and r = x - k *     *)
(* ln 2 / 128; 2^(k/128) is read from a table and exp(r) is a polynomial   *)
(* in r.                                                                   *)
(***************************************************************************)
\* 128 / ln 2
InvLn2N == [neg |-> FALSE, m |-> <<16767, 25899, 10894, 92>>, e |-> -44]

\* -ln 2 / 128 in two parts: the high bits and the rest
NegLn2hiN == [neg |-> TRUE, m |-> <<32637, 11842, 44>>, e |-> -43]
NegLn2loN == [neg |-> TRUE, m |-> <<7581, 15518, 28469, 115>>, e |-> -98]

\* the coefficients of r^2 .. r^5 of the polynomial
C2 == [neg |-> FALSE, m |-> <<32189, 32767, 32767, 255>>, e |-> -54]
C3 == [neg |-> FALSE, m |-> <<21775, 10922, 21845, 42>>, e |-> -53]
C4 == [neg |-> FALSE, m |-> <<11153, 7726, 21847, 170>>, e |-> -57]
C5 == [neg |-> FALSE, m |-> <<20503, 20297, 17477, 136>>, e |-> -59]

\* for j = 0..127, row j + 1: 2^(j/128) as the double `scale` nearest to it and
\* the double `tail` with 2^(j/128) ~ scale * (1 + tail)
ExpTable1 ==
    << [scale |-> [neg |-> FALSE, m |-> <<1>>, e |-> 0], tail |-> [neg |-> FALSE, m |-> <<>>, e |-> 0]],
       [scale |-> [neg |-> FALSE, m |-> <<13109, 21494, 22774, 128>>, e |-> -52], tail |-> [neg |-> FALSE, m |-> <<24503, 6792, 30366, 108>>, e |-> -105]],
       [scale |-> [neg |-> FALSE, m |-> <<97, 31983, 12904, 129>>, e |-> -52], tail |-> [neg |-> TRUE, m |-> <<23645, 14769, 78, 139>>, e |-> -108]],
       [scale |-> [neg |-> FALSE, m |-> <<32645, 20700, 3159, 130>>, e |-> -52], tail |-> [neg |-> TRUE, m |-> <<26321, 8462, 31208, 130>>, e |-> -106]],
       [scale |-> [neg |-> FALSE, m |-> <<24925, 27018, 22960, 32>>, e |-> -50], tail |-> [neg |-> FALSE, m |-> <<30227, 27343, 18760, 230>>, e |-> -107]],
       [scale |-> [neg |-> FALSE, m |-> <<31599, 10717, 24790, 65>>, e |-> -51], tail |-> [neg |-> TRUE, m |-> <<18301, 9209, 7424, 111>>, e |-> -106]],
       [scale |-> [neg |-> FALSE, m |-> <<13177, 17949, 17314, 16>>, e |-> -49], tail |-> [neg |-> FALSE, m |-> <<18529, 17357, 23865, 135>>, e |-> -109]],
       [scale |-> [neg |-> FALSE, m |-> <<29571, 5517, 30971, 132>>, e |-> -52], tail |-> [neg |-> FALSE, m |-> <<21401, 13927, 3985, 133>>, e |-> -106]],
       [scale |-> [neg |-> FALSE, m |-> <<2319, 23027, 21857, 133>>, e |-> -52], tail |-> [neg |-> FALSE, m |-> <<31597, 15110, 27289, 188>>, e |-> -106]],
       [scale |-> [neg |-> FALSE, m |-> <<18423, 22244, 12872, 134>>, e |-> -52], tail |-> [neg |-> FALSE, m |-> <<31743, 18814, 13594, 61>>, e |-> -105]],
       [scale |-> [neg |-> FALSE, m |-> <<26833, 13011, 18392, 67>>, e |-> -51], tail |-> [neg |-> FALSE, m |-> <<7377, 24671, 30965, 245>>, e |-> -112]],
       [scale |-> [neg |-> FALSE, m |-> <<21275, 24573, 28058, 135>>, e |-> -52], tail |-> [neg |-> TRUE, m |-> <<28171, 4896, 3282, 208>>, e |-> -109]],
       [scale |-> [neg |-> FALSE, m |-> <<23377, 8228, 19463, 136>>, e |-> -52], tail |-> [neg |-> TRUE, m |-> <<24199, 10799, 11428, 85>>, e |-> -105]],
       [scale |-> [neg |-> FALSE, m |-> <<3187, 24630, 10941, 34>>, e |-> -50], tail |-> [neg |-> TRUE, m |-> <<27221, 6301, 958, 132>>, e |-> -110]],
       [scale |-> [neg |-> FALSE, m |-> <<18799, 10986, 10323, 4>>, e |-> -47], tail |-> [neg |-> TRUE, m |-> <<31243, 14805, 4679, 71>>, e |-> -105]],
       [scale |-> [neg |-> FALSE, m |-> <<3665, 4427, 27235, 138>>, e |-> -52], tail |-> [neg |-> FALSE, m |-> <<21935, 21176, 20367, 134>>, e |-> -107]] >>

ExpTable2 ==
    << [scale |-> [neg |-> FALSE, m |-> <<20859, 30970, 19168, 139>>, e |-> -52], tail |-> [neg |-> TRUE, m |-> <<12905, 31401, 3466, 16>>, e |-> -104]],
       [scale |-> [neg |-> FALSE, m |-> <<18165, 14476, 5618, 70>>, e |-> -51], tail |-> [neg |-> TRUE, m |-> <<12861, 11196, 32705, 248>>, e |-> -107]],
       [scale |-> [neg |-> FALSE, m |-> <<19317, 22239, 3439, 141>>, e |-> -52], tail |-> [neg |-> FALSE, m |-> <<21439, 32294, 9776, 220>>, e |-> -107]],
       [scale |-> [neg |-> FALSE, m |-> <<5941, 16898, 15328, 35>>, e |-> -50], tail |-> [neg |-> TRUE, m |-> <<30099, 30225, 13112, 91>>, e |-> -105]],
       [scale |-> [neg |-> FALSE, m |-> <<23765, 12648, 10510, 71>>, e |-> -51], tail |-> [neg |-> FALSE, m |-> <<20859, 29667, 23966, 6>>, e |-> -101]],
       [scale |-> [neg |-> FALSE, m |-> <<22813, 17913, 13632, 143>>, e |-> -52], tail |-> [neg |-> TRUE, m |-> <<14493, 5900, 7691, 255>>, e |-> -107]],
       [scale |-> [neg |-> FALSE, m |-> <<18027, 2146, 3191, 72>>, e |-> -51], tail |-> [neg |-> FALSE, m |-> <<17293, 2381, 15621, 211>>, e |-> -107]],
       [scale |-> [neg |-> FALSE, m |-> <<28235, 4477, 16019, 72>>, e |-> -51], tail |-> [neg |-> FALSE, m |-> <<1149, 25032, 26646, 131>>, e |-> -107]],
       [scale |-> [neg |-> FALSE, m |-> <<11335, 7069, 7229, 18>>, e |-> -49], tail |-> [neg |-> FALSE, m |-> <<10789, 29140, 3837, 45>>, e |-> -104]],
       [scale |-> [neg |-> FALSE, m |-> <<9791, 8037, 18233, 146>>, e |-> -52], tail |-> [neg |-> FALSE, m |-> <<18557, 25832, 30819, 186>>, e |-> -107]],
       [scale |-> [neg |-> FALSE, m |-> <<31965, 19396, 11541, 147>>, e |-> -52], tail |-> [neg |-> FALSE, m |-> <<29689, 6175, 3671, 65>>, e |-> -106]],
       [scale |-> [neg |-> FALSE, m |-> <<25473, 17386, 4991, 148>>, e |-> -52], tail |-> [neg |-> TRUE, m |-> <<1071, 16241, 28918, 90>>, e |-> -105]],
       [scale |-> [neg |-> FALSE, m |-> <<24289, 27199, 31351, 148>>, e |-> -52], tail |-> [neg |-> FALSE, m |-> <<11057, 23059, 24453, 151>>, e |-> -107]],
       [scale |-> [neg |-> FALSE, m |-> <<11673, 31259, 11807, 9>>, e |-> -48], tail |-> [neg |-> TRUE, m |-> <<24573, 6767, 17206, 116>>, e |-> -111]],
       [scale |-> [neg |-> FALSE, m |-> <<779, 19912, 18966, 150>>, e |-> -52], tail |-> [neg |-> FALSE, m |-> <<685, 14598, 14210, 54>>, e |-> -105]],
       [scale |-> [neg |-> FALSE, m |-> <<6059, 10558, 22879, 75>>, e |-> -51], tail |-> [neg |-> FALSE, m |-> <<19343, 5021, 21066, 240>>, e |-> -109]] >>

ExpTable3 ==
    << [scale |-> [neg |-> FALSE, m |-> <<14101, 5219, 7160, 152>>, e |-> -52], tail |-> [neg |-> FALSE, m |-> <<21979, 19888, 6890, 77>>, e |-> -106]],
       [scale |-> [neg |-> FALSE, m |-> <<22577, 30873, 1475, 153>>, e |-> -52], tail |-> [neg |-> FALSE, m |-> <<7443, 29014, 16897, 44>>, e |-> -105]],
       [scale |-> [neg |-> FALSE, m |-> <<5887, 25800, 28706, 153>>, e |-> -52], tail |-> [neg |-> FALSE, m |-> <<31781, 24019, 14962, 127>>, e |-> -106]],
       [scale |-> [neg |-> FALSE, m |-> <<8177, 16165, 23317, 154>>, e |-> -52], tail |-> [neg |-> TRUE, m |-> <<5825, 7623, 9088, 45>>, e |-> -105]],
       [scale |-> [neg |-> FALSE, m |-> <<10699, 28277, 18076, 155>>, e |-> -52], tail |-> [neg |-> TRUE, m |-> <<27149, 29458, 9590, 18>>, e |-> -103]],
       [scale |-> [neg |-> FALSE, m |-> <<27699, 27909, 6492, 78>>, e |-> -51], tail |-> [neg |-> TRUE, m |-> <<5831, 6993, 4080, 100>>, e |-> -105]],
       [scale |-> [neg |-> FALSE, m |-> <<8183, 27083, 8044, 157>>, e |-> -52], tail |-> [neg |-> TRUE, m |-> <<7017, 16020, 9168, 71>>, e |-> -107]],
       [scale |-> [neg |-> FALSE, m |-> <<10469, 1575, 3255, 158>>, e |-> -52], tail |-> [neg |-> TRUE, m |-> <<6933, 26524, 25702, 200>>, e |-> -106]],
       [scale |-> [neg |-> FALSE, m |-> <<6673, 19474, 15692, 79>>, e |-> -51], tail |-> [neg |-> FALSE, m |-> <<19565, 20052, 32034, 172>>, e |-> -107]],
       [scale |-> [neg |-> FALSE, m |-> <<8199, 598, 31301, 39>>, e |-> -50], tail |-> [neg |-> TRUE, m |-> <<13509, 31272, 9408, 76>>, e |-> -105]],
       [scale |-> [neg |-> FALSE, m |-> <<5909, 8695, 11284, 80>>, e |-> -51], tail |-> [neg |-> TRUE, m |-> <<2395, 4143, 7741, 197>>, e |-> -110]],
       [scale |-> [neg |-> FALSE, m |-> <<10391, 12961, 18391, 161>>, e |-> -52], tail |-> [neg |-> TRUE, m |-> <<6683, 20115, 12909, 225>>, e |-> -108]],
       [scale |-> [neg |-> FALSE, m |-> <<2349, 16579, 14369, 162>>, e |-> -52], tail |-> [neg |-> FALSE, m |-> <<11281, 16773, 4021, 155>>, e |-> -111]],
       [scale |-> [neg |-> FALSE, m |-> <<87, 23098, 10503, 163>>, e |-> -52], tail |-> [neg |-> FALSE, m |-> <<25839, 30220, 6180, 179>>, e |-> -106]],
       [scale |-> [neg |-> FALSE, m |-> <<5069, 22200, 8616, 10>>, e |-> -48], tail |-> [neg |-> FALSE, m |-> <<889, 13634, 13191, 246>>, e |-> -109]],
       [scale |-> [neg |-> FALSE, m |-> <<27119, 28887, 18005, 82>>, e |-> -51], tail |-> [neg |-> FALSE, m |-> <<28963, 18401, 32739, 9>>, e |-> -102]] >>

ExpTable4 ==
    << [scale |-> [neg |-> FALSE, m |-> <<10791, 10860, 32619, 165>>, e |-> -52], tail |-> [neg |-> FALSE, m |-> <<11003, 22383, 9267, 11>>, e |-> -104]],
       [scale |-> [neg |-> FALSE, m |-> <<23821, 13307, 29386, 166>>, e |-> -52], tail |-> [neg |-> FALSE, m |-> <<24695, 22185, 30455, 152>>, e |-> -106]],
       [scale |-> [neg |-> FALSE, m |-> <<11431, 27962, 26313, 167>>, e |-> -52], tail |-> [neg |-> TRUE, m |-> <<20935, 113, 10344, 126>>, e |-> -106]],
       [scale |-> [neg |-> FALSE, m |-> <<13089, 8911, 11701, 84>>, e |-> -51], tail |-> [neg |-> TRUE, m |-> <<9033, 14631, 31539, 190>>, e |-> -107]],
       [scale |-> [neg |-> FALSE, m |-> <<10177, 22173, 26710, 84>>, e |-> -51], tail |-> [neg |-> TRUE, m |-> <<14431, 31262, 31514, 198>>, e |-> -108]],
       [scale |-> [neg |-> FALSE, m |-> <<4623, 5307, 18067, 170>>, e |-> -52], tail |-> [neg |-> TRUE, m |-> <<11899, 27771, 9357, 88>>, e |-> -106]],
       [scale |-> [neg |-> FALSE, m |-> <<5101, 14005, 24206, 85>>, e |-> -51], tail |-> [neg |-> FALSE, m |-> <<27591, 6397, 27146, 76>>, e |-> -105]],
       [scale |-> [neg |-> FALSE, m |-> <<18429, 10543, 13387, 172>>, e |-> -52], tail |-> [neg |-> FALSE, m |-> <<6917, 24341, 25308, 220>>, e |-> -108]],
       [scale |-> [neg |-> FALSE, m |-> <<21545, 14992, 11295, 173>>, e |-> -52], tail |-> [neg |-> FALSE, m |-> <<21513, 17464, 3975, 131>>, e |-> -106]],
       [scale |-> [neg |-> FALSE, m |-> <<18103, 5298, 9370, 174>>, e |-> -52], tail |-> [neg |-> FALSE, m |-> <<25461, 20505, 3850, 83>>, e |-> -111]],
       [scale |-> [neg |-> FALSE, m |-> <<9257, 17771, 29623, 21>>, e |-> -49], tail |-> [neg |-> FALSE, m |-> <<16437, 22217, 19352, 161>>, e |-> -106]],
       [scale |-> [neg |-> FALSE, m |-> <<23561, 29421, 6022, 176>>, e |-> -52], tail |-> [neg |-> TRUE, m |-> <<30367, 17202, 4393, 231>>, e |-> -107]],
       [scale |-> [neg |-> FALSE, m |-> <<21893, 24692, 4602, 177>>, e |-> -52], tail |-> [neg |-> TRUE, m |-> <<27061, 20219, 6626, 28>>, e |-> -104]],
       [scale |-> [neg |-> FALSE, m |-> <<26137, 25420, 18536, 5>>, e |-> -47], tail |-> [neg |-> TRUE, m |-> <<29911, 2347, 9969, 81>>, e |-> -106]],
       [scale |-> [neg |-> FALSE, m |-> <<8741, 1194, 2274, 179>>, e |-> -52], tail |-> [neg |-> TRUE, m |-> <<19211, 24085, 26478, 19>>, e |-> -103]],
       [scale |-> [neg |-> FALSE, m |-> <<10611, 10393, 1367, 180>>, e |-> -52], tail |-> [neg |-> FALSE, m |-> <<1625, 16447, 4266, 46>>, e |-> -108]] >>

ExpTable5 ==
    << [scale |-> [neg |-> FALSE, m |-> <<15309, 19710, 633, 181>>, e |-> -52], tail |-> [neg |-> TRUE, m |-> <<17477, 28631, 23031, 19>>, e |-> -103]],
       [scale |-> [neg |-> FALSE, m |-> <<23231, 27159, 73, 182>>, e |-> -52], tail |-> [neg |-> TRUE, m |-> <<23745, 1844, 9563, 104>>, e |-> -108]],
       [scale |-> [neg |-> FALSE, m |-> <<6703, 30922, 32456, 182>>, e |-> -52], tail |-> [neg |-> TRUE, m |-> <<21751, 14445, 20447, 77>>, e |-> -108]],
       [scale |-> [neg |-> FALSE, m |-> <<25889, 31912, 32637, 45>>, e |-> -50], tail |-> [neg |-> TRUE, m |-> <<2129, 10689, 28917, 134>>, e |-> -107]],
       [scale |-> [neg |-> FALSE, m |-> <<6109, 29814, 8053, 46>>, e |-> -50], tail |-> [neg |-> TRUE, m |-> <<16079, 31924, 32145, 192>>, e |-> -108]],
       [scale |-> [neg |-> FALSE, m |-> <<24669, 9298, 16282, 46>>, e |-> -50], tail |-> [neg |-> TRUE, m |-> <<14299, 22545, 15250, 11>>, e |-> -103]],
       [scale |-> [neg |-> FALSE, m |-> <<26569, 11396, 32685, 186>>, e |-> -52], tail |-> [neg |-> TRUE, m |-> <<29509, 7765, 12900, 88>>, e |-> -106]],
       [scale |-> [neg |-> FALSE, m |-> <<23871, 8124, 421, 188>>, e |-> -52], tail |-> [neg |-> FALSE, m |-> <<21715, 15379, 29485, 132>>, e |-> -106]],
       [scale |-> [neg |-> FALSE, m |-> <<391, 26582, 1105, 189>>, e |-> -52], tail |-> [neg |-> TRUE, m |-> <<9501, 29339, 19314, 217>>, e |-> -108]],
       [scale |-> [neg |-> FALSE, m |-> <<24729, 304, 986, 95>>, e |-> -51], tail |-> [neg |-> FALSE, m |-> <<16491, 10447, 13301, 167>>, e |-> -106]],
       [scale |-> [neg |-> FALSE, m |-> <<10033, 14031, 17894, 95>>, e |-> -51], tail |-> [neg |-> FALSE, m |-> <<27733, 22444, 12166, 175>>, e |-> -109]],
       [scale |-> [neg |-> FALSE, m |-> <<3337, 21566, 2126, 96>>, e |-> -51], tail |-> [neg |-> TRUE, m |-> <<26529, 12211, 17290, 98>>, e |-> -106]],
       [scale |-> [neg |-> FALSE, m |-> <<19987, 12953, 5670, 193>>, e |-> -52], tail |-> [neg |-> TRUE, m |-> <<19917, 30877, 27062, 38>>, e |-> -104]],
       [scale |-> [neg |-> FALSE, m |-> <<18349, 3143, 7273, 194>>, e |-> -52], tail |-> [neg |-> TRUE, m |-> <<32655, 14873, 15624, 65>>, e |-> -106]],
       [scale |-> [neg |-> FALSE, m |-> <<4845, 13961, 9062, 195>>, e |-> -52], tail |-> [neg |-> TRUE, m |-> <<11191, 22642, 10401, 83>>, e |-> -105]],
       [scale |-> [neg |-> FALSE, m |-> <<26265, 13076, 11039, 196>>, e |-> -52], tail |-> [neg |-> FALSE, m |-> <<1861, 26459, 8538>>, e |-> -97]] >>

ExpTable6 ==
    << [scale |-> [neg |-> FALSE, m |-> <<8411, 1109, 13205, 197>>, e |-> -52], tail |-> [neg |-> FALSE, m |-> <<15021, 24824, 14127, 59>>, e |-> -105]],
       [scale |-> [neg |-> FALSE, m |-> <<20771, 2906, 20274, 49>>, e |-> -50], tail |-> [neg |-> TRUE, m |-> <<26623, 14731, 22914, 173>>, e |-> -109]],
       [scale |-> [neg |-> FALSE, m |-> <<15259, 6421, 25437, 99>>, e |-> -51], tail |-> [neg |-> FALSE, m |-> <<22481, 11513, 30339, 55>>, e |-> -106]],
       [scale |-> [neg |-> FALSE, m |-> <<32739, 2961, 10422, 100>>, e |-> -51], tail |-> [neg |-> TRUE, m |-> <<15747, 20028, 9342, 152>>, e |-> -106]],
       [scale |-> [neg |-> FALSE, m |-> <<17893, 24987, 23774, 201>>, e |-> -52], tail |-> [neg |-> TRUE, m |-> <<7721, 5848, 9954, 237>>, e |-> -110]],
       [scale |-> [neg |-> FALSE, m |-> <<21007, 6032, 26899, 202>>, e |-> -52], tail |-> [neg |-> TRUE, m |-> <<14681, 31009, 4069, 225>>, e |-> -109]],
       [scale |-> [neg |-> FALSE, m |-> <<25829, 21499, 24416, 12>>, e |-> -48], tail |-> [neg |-> TRUE, m |-> <<31957, 8948, 1670, 73>>, e |-> -105]],
       [scale |-> [neg |-> FALSE, m |-> <<989, 28874, 16866, 102>>, e |-> -51], tail |-> [neg |-> TRUE, m |-> <<3659, 11981, 10675, 174>>, e |-> -107]],
       [scale |-> [neg |-> FALSE, m |-> <<16137, 12372, 28964, 12>>, e |-> -48], tail |-> [neg |-> FALSE, m |-> <<20007, 22307, 16368, 141>>, e |-> -108]],
       [scale |-> [neg |-> FALSE, m |-> <<8995, 13254, 8588, 207>>, e |-> -52], tail |-> [neg |-> FALSE, m |-> <<29627, 16916, 18647, 238>>, e |-> -109]],
       [scale |-> [neg |-> FALSE, m |-> <<25957, 30395, 12697, 208>>, e |-> -52], tail |-> [neg |-> TRUE, m |-> <<8803, 17604, 5136, 190>>, e |-> -107]],
       [scale |-> [neg |-> FALSE, m |-> <<11571, 22676, 17007, 209>>, e |-> -52], tail |-> [neg |-> FALSE, m |-> <<12757, 18372, 29211, 216>>, e |-> -107]],
       [scale |-> [neg |-> FALSE, m |-> <<9565, 25724, 21518, 210>>, e |-> -52], tail |-> [neg |-> TRUE, m |-> <<15125, 10105, 28487, 141>>, e |-> -106]],
       [scale |-> [neg |-> FALSE, m |-> <<5739, 1228, 15567, 26>>, e |-> -49], tail |-> [neg |-> FALSE, m |-> <<6377, 7406, 6243, 67>>, e |-> -105]],
       [scale |-> [neg |-> FALSE, m |-> <<32191, 10995, 31149, 212>>, e |-> -52], tail |-> [neg |-> FALSE, m |-> <<23219, 23782, 9745, 163>>, e |-> -107]],
       [scale |-> [neg |-> FALSE, m |-> <<31165, 16339, 1751, 107>>, e |-> -51], tail |-> [neg |-> TRUE, m |-> <<10093, 19399, 24525, 37>>, e |-> -105]] >>

ExpTable7 ==
    << [scale |-> [neg |-> FALSE, m |-> <<21421, 12981, 8830, 215>>, e |-> -52], tail |-> [neg |-> FALSE, m |-> <<13191, 9622, 27102, 224>>, e |-> -107]],
       [scale |-> [neg |-> FALSE, m |-> <<23347, 10637, 7182, 108>>, e |-> -51], tail |-> [neg |-> TRUE, m |-> <<27901, 19153, 30494, 65>>, e |-> -105]],
       [scale |-> [neg |-> FALSE, m |-> <<5627, 28830, 20106, 217>>, e |-> -52], tail |-> [neg |-> TRUE, m |-> <<22365, 22236, 1970, 87>>, e |-> -109]],
       [scale |-> [neg |-> FALSE, m |-> <<11421, 3557, 13029, 109>>, e |-> -51], tail |-> [neg |-> TRUE, m |-> <<7129, 29165, 2624, 2>>, e |-> -100]],
       [scale |-> [neg |-> FALSE, m |-> <<24135, 26102, 32219, 219>>, e |-> -52], tail |-> [neg |-> TRUE, m |-> <<25805, 7254, 22260, 49>>, e |-> -107]],
       [scale |-> [neg |-> FALSE, m |-> <<805, 12449, 19296, 110>>, e |-> -51], tail |-> [neg |-> TRUE, m |-> <<2613, 22193, 15241, 143>>, e |-> -106]],
       [scale |-> [neg |-> FALSE, m |-> <<24809, 4171, 6205, 111>>, e |-> -51], tail |-> [neg |-> FALSE, m |-> <<24013, 5311, 32604, 167>>, e |-> -108]],
       [scale |-> [neg |-> FALSE, m |-> <<7689, 14254, 19209, 223>>, e |-> -52], tail |-> [neg |-> TRUE, m |-> <<9771, 32073, 15867, 35>>, e |-> -104]],
       [scale |-> [neg |-> FALSE, m |-> <<21671, 28354, 6555, 56>>, e |-> -50], tail |-> [neg |-> FALSE, m |-> <<3251, 24926, 15032, 155>>, e |-> -108]],
       [scale |-> [neg |-> FALSE, m |-> <<26685, 24575, 342, 113>>, e |-> -51], tail |-> [neg |-> FALSE, m |-> <<32613, 11855, 25394, 61>>, e |-> -105]],
       [scale |-> [neg |-> FALSE, m |-> <<20811, 23727, 8132, 227>>, e |-> -52], tail |-> [neg |-> FALSE, m |-> <<22123, 26756, 24719, 41>>, e |-> -105]],
       [scale |-> [neg |-> FALSE, m |-> <<26549, 10253, 15798, 228>>, e |-> -52], tail |-> [neg |-> FALSE, m |-> <<6759, 28828, 14012, 158>>, e |-> -109]],
       [scale |-> [neg |-> FALSE, m |-> <<4201, 14815, 23683, 229>>, e |-> -52], tail |-> [neg |-> FALSE, m |-> <<17197, 6948, 13718, 23>>, e |-> -106]],
       [scale |-> [neg |-> FALSE, m |-> <<25085, 21853, 15894, 115>>, e |-> -51], tail |-> [neg |-> TRUE, m |-> <<23273, 972, 5169, 66>>, e |-> -106]],
       [scale |-> [neg |-> FALSE, m |-> <<25183, 9475, 1837, 58>>, e |-> -50], tail |-> [neg |-> TRUE, m |-> <<31343, 32767, 13684, 253>>, e |-> -107]],
       [scale |-> [neg |-> FALSE, m |-> <<17657, 2061, 24334, 116>>, e |-> -51], tail |-> [neg |-> TRUE, m |-> <<10569, 28907, 14008, 128>>, e |-> -106]] >>

ExpTable8 ==
    << [scale |-> [neg |-> FALSE, m |-> <<9351, 14839, 24675, 234>>, e |-> -52], tail |-> [neg |-> FALSE, m |-> <<1959, 19578, 3606, 165>>, e |-> -108]],
       [scale |-> [neg |-> FALSE, m |-> <<12403, 17842, 16497, 29>>, e |-> -49], tail |-> [neg |-> TRUE, m |-> <<8719, 16512, 18040, 148>>, e |-> -107]],
       [scale |-> [neg |-> FALSE, m |-> <<12933, 1974, 10136, 237>>, e |-> -52], tail |-> [neg |-> FALSE, m |-> <<25771, 27360, 23120, 60>>, e |-> -105]],
       [scale |-> [neg |-> FALSE, m |-> <<3491, 7984, 14948, 7>>, e |-> -47], tail |-> [neg |-> FALSE, m |-> <<27467, 22530, 26982, 161>>, e |-> -107]],
       [scale |-> [neg |-> FALSE, m |-> <<7007, 26359, 29276, 239>>, e |-> -52], tail |-> [neg |-> TRUE, m |-> <<15903, 3944, 21636, 150>>, e |-> -107]],
       [scale |-> [neg |-> FALSE, m |-> <<8489, 10731, 6424, 241>>, e |-> -52], tail |-> [neg |-> TRUE, m |-> <<3529, 30350, 10980, 201>>, e |-> -107]],
       [scale |-> [neg |-> FALSE, m |-> <<8187, 26507, 8285, 121>>, e |-> -51], tail |-> [neg |-> FALSE, m |-> <<2259, 16501, 22545, 165>>, e |-> -108]],
       [scale |-> [neg |-> FALSE, m |-> <<19587, 30606, 26951, 243>>, e |-> -52], tail |-> [neg |-> FALSE, m |-> <<29297, 9018, 6065, 158>>, e |-> -107]],
       [scale |-> [neg |-> FALSE, m |-> <<18541, 8868, 18783, 122>>, e |-> -51], tail |-> [neg |-> TRUE, m |-> <<14623, 20986, 32196, 15>>, e |-> -103]],
       [scale |-> [neg |-> FALSE, m |-> <<26609, 23324, 15648, 246>>, e |-> -52], tail |-> [neg |-> TRUE, m |-> <<29821, 17478, 14947, 237>>, e |-> -107]],
       [scale |-> [neg |-> FALSE, m |-> <<23079, 23746, 26735, 247>>, e |-> -52], tail |-> [neg |-> FALSE, m |-> <<17409, 4202, 25054, 30>>, e |-> -104]],
       [scale |-> [neg |-> FALSE, m |-> <<14999, 28375, 5292, 249>>, e |-> -52], tail |-> [neg |-> FALSE, m |-> <<30105, 17321, 22313, 80>>, e |-> -106]],
       [scale |-> [neg |-> FALSE, m |-> <<14613, 13019, 29959, 3>>, e |-> -46], tail |-> [neg |-> FALSE, m |-> <<17143, 12753, 18770, 105>>, e |-> -106]],
       [scale |-> [neg |-> FALSE, m |-> <<12165, 22222, 31741, 62>>, e |-> -50], tail |-> [neg |-> TRUE, m |-> <<25581, 18551, 24299, 241>>, e |-> -107]],
       [scale |-> [neg |-> FALSE, m |-> <<21019, 24679, 21472, 31>>, e |-> -49], tail |-> [neg |-> FALSE, m |-> <<19869, 6947, 9453, 188>>, e |-> -108]],
       [scale |-> [neg |-> FALSE, m |-> <<29169, 22302, 20232, 254>>, e |-> -52], tail |-> [neg |-> FALSE, m |-> <<19593, 705, 5893, 152>>, e |-> -110]] >>

ExpTable ==
    ExpTable1 \o ExpTable2 \o ExpTable3 \o ExpTable4 \o ExpTable5 \o ExpTable6 \o ExpTable7 \o ExpTable8

\* the integer nearest to the exact product x * InvLn2N: the program adds
\* Shift = 1.5 * 2^52 in the same fused operation, and the doubles around
\* Shift are the integers
NearestInt(z) ==
    (IF z.neg THEN -1 ELSE 1) * NatInt(RoundShift(z.m, 0 - z.e))

NearestK(x) == NearestInt(ExactProduct(x, InvLn2N))

\* r = x - kd * ln 2 / 128, ln 2 / 128 in two parts
Reduced(x, kd) == Fma(kd, NegLn2loN, Fma(kd, NegLn2hiN, x))

\* tmp = tail + r + r2 * (C2 + r * C3) + r2 * r2 * (C4 + r * C5), about
\* exp(r) - 1, as a function of r2 = r * r
ExpPoly(tail, r) ==
    [r2 \in Binaries |->
        Fma(FloatMul(r2, r2), Fma(r, C5, C4), Fma(Fma(r, C3, C2), r2, FloatAdd(tail, r)))]

\* scale + scale * tmp, as a function of tmp
ExpScaled(scale) == [tmp \in Binaries |-> Fma(scale, tmp, scale)]

\* exp(x) from the row of the table of k % 128, its scale taken k \div 128
\* binary places up, as a function of r
ExpOfRow(row, places) ==
    [r \in Binaries |->
        ExpScaled([row.scale EXCEPT !.e = @ + places])[ExpPoly(row.tail, r)[FloatMul(r, r)]]]

\* exp(x) as a function of k
ExpOfK(x) ==
    [k \in Int |->
        ExpOfRow(ExpTable[(k % 128) + 1], k \div 128)[Reduced(x, FloatOfInt(k))]]

\* math.exp(x) for a double |x| < 2^9; 1.0 + x for |x| < 2^-54
Exp(x) ==
    IF x.m = <<>> \/ NatBits(x.m) + x.e <= 0 - 54 THEN FloatAdd(One, x)
    ELSE ExpOfK(x)[NearestK(x)]

(***************************************************************************)
(* Strings.  A Python str is the sequence of its characters, each a        *)
(* one-character string; None or a str is a record [none, text].           *)
(***************************************************************************)
None == [none |-> TRUE, text |-> <<>>]
Str(s) == [none |-> FALSE, text |-> s]

\* `not x` for x a str or None
Falsy(x) == x.none \/ x.text = <<>>

UpperCase == {"A", "B", "G", "S"}

LowerOf(c) ==
    IF c = "A" THEN "a" ELSE IF c = "B" THEN "b" ELSE IF c = "G" THEN "g" ELSE "s"

\* str.lower()
Lower(s) == [k \in 1..Len(s) |-> IF s[k] \in UpperCase THEN LowerOf(s[k]) ELSE s[k]]

RECURSIVE LStrip(_)
LStrip(s) == IF s # <<>> /\ Head(s) = " " THEN LStrip(Tail(s)) ELSE s

Reverse(s) == [k \in 1..Len(s) |-> s[Len(s) + 1 - k]]

\* str.strip()
Strip(s) == Reverse(LStrip(Reverse(LStrip(s))))

StartsWith(s, prefix) ==
    Len(s) >= Len(prefix) /\ SubSeq(s, 1, Len(prefix)) = prefix

RECURSIVE Replace(_, _, _)
\* str.replace(old, new): every occurrence of old, found from the left
Replace(s, old, new) ==
    IF s = <<>> THEN <<>>
    ELSE IF StartsWith(s, old)
         THEN new \o Replace(SubSeq(s, Len(old) + 1, Len(s)), old, new)
         ELSE <<Head(s)>> \o Replace(Tail(s), old, new)

RECURSIVE SplitWords(_, _)
\* str.split(): the words between runs of spaces, `word` being the one in progress
SplitWords(s, word) ==
    IF s = <<>> THEN (IF word = <<>> THEN <<>> ELSE <<word>>)
    ELSE IF Head(s) = " "
         THEN (IF word = <<>> THEN <<>> ELSE <<word>>) \o SplitWords(Tail(s), <<>>)
         ELSE SplitWords(Tail(s), Append(word, Head(s)))

\* " ".join(title.split()[:2])
FirstTwoWords(title) ==
    LET words == SplitWords(title, <<>>)
    IN IF words = <<>> THEN <<>>
       ELSE IF Len(words) = 1 THEN words[1]
       ELSE words[1] \o <<" ">> \o words[2]

AmazonBrandPrefix == <<"a", "m", "a", "z", "o", "n", " ", "b", "r", "a", "n", "d", " ", "-", " ">>
AmazonBasicsJoined == <<"a", "m", "a", "z", "o", "n", "b", "a", "s", "i", "c", "s">>
AmazonBasicsSpaced == <<"a", "m", "a", "z", "o", "n", " ", "b", "a", "s", "i", "c", "s">>
Unknown == <<"u", "n", "k", "n", "o", "w", "n">>

(***************************************************************************)
(* normalize_brand (brand_analyzer.py) and the key of get_brand_score      *)
(***************************************************************************)
normalize_brand(brand_raw) ==
    IF Falsy(brand_raw) THEN Unknown
    ELSE LET b == Strip(Lower(brand_raw.text))
             c == Replace(b, AmazonBrandPrefix, <<>>)
         IN Replace(c, AmazonBasicsJoined, AmazonBasicsSpaced)

\* brand_key = str(brand).lower().replace("amazon brand - ", "").strip()
BrandKey(brand) == Strip(Replace(Lower(brand), AmazonBrandPrefix, <<>>))

(***************************************************************************)
(* Inputs                                                                  *)
(***************************************************************************)
MaxRankings == 3

Items == {"A", "B", "C"}

\* visibility scores 0.0, 0.1, 0.2 and 0.3: a winner at the floor 0.1, and gaps
\* below, equal to and above 0.2; of the two gaps that are 0.2 in decimals, the
\* doubles of 0.2 and 0.0 differ by the double of 0.2 and those of 0.3 and 0.1
\* by less
VisValues == {0, 1000, 2000, 3000}

KeySolimo == <<"s", "o", "l", "i", "m", "o">>
KeySamsung == <<"s", "a", "m", "s", "u", "n", "g">>

\* data/brand_popularity.json: normalized brand key -> popularity score
brand_map == [b \in {KeySolimo, KeySamsung} |->
                 IF b = KeySolimo THEN [count |-> 3, popularity_score |-> 5000]
                                  ELSE [count |-> 9, popularity_score |-> 10000]]

TitleGeneric == <<"G", "e", "n", "e", "r", "i", "c", " ", "B", "a", "g", " ", "S", "m", "a", "l", "l">>
TitleSolimo == <<"S", "o", "l", "i", "m", "o", " ", "B", "a", "g">>
TitleSamsung == <<"S", "a", "m", "s", "u", "n", "g", " ", "B", "a", "g">>
BrandSolimo == <<"A", "m", "a", "z", "o", "n", " ", "B", "r", "a", "n", "d", " ", "-", " ", "S", "o", "l", "i", "m", "o">>
BrandSamsung == <<"S", "a", "m", "s", "u", "n", "g">>

\* catalog records: a short listing with no brand and no sim_rating key, a mid
\* listing of a house brand, and a long top-brand five-star listing; `brand`
\* is specifications.brand and `rating` the real rating of the repository
Profiles ==
    { [features_len |-> 200,  title |-> TitleGeneric, rating |-> 45],
      [features_len |-> 1000, title |-> TitleSolimo, brand |-> BrandSolimo,
       rating |-> 30, sim_rating |-> 40],
      [features_len |-> 2500, title |-> TitleSamsung, brand |-> BrandSamsung,
       rating |-> 50, sim_rating |-> 50] }

ScoredItems == [item_id : Items, visibility_score : VisValues]

\* a query's rankings: one entry per item of the query's result list
DistinctIds(r) == \A a, b \in 1..Len(r) : a # b => r[a].item_id # r[b].item_id

\* the rank field an upstream stage may supply: the position in the result list
WithUpstreamRank(r) ==
    [k \in 1..Len(r) |-> [item_id |-> r[k].item_id,
                          visibility_score |-> r[k].visibility_score,
                          rank |-> k]]

RankingsOfLen(n) ==
    {WithUpstreamRank(r) : r \in {x \in [1..n -> ScoredItems] : DistinctIds(x)}}

Catalogs == UNION {[S -> Profiles] : S \in SUBSET Items}

RankingLists == UNION {RankingsOfLen(n) : n \in 0..MaxRankings}

\* the rankings of a long log: at most two of the items A and B, seen or unseen
ShortRankingLists ==
    {r \in RankingLists :
        /\ Len(r) < MaxRankings
        /\ \A k \in 1..Len(r) : /\ r[k].item_id \in {"A", "B"}
                                 /\ r[k].visibility_score \in {0, 3000}}

ShortCatalogs == {c \in Catalogs : "C" \notin DOMAIN c}

(***************************************************************************)
(* calculate_propensity                                                    *)
(***************************************************************************)
\* a long decimal in units 10^-8, the further digits dropped
DecToFine(a) == a[1] * Fine + a[2] * Base + a[3]

\* the logits without the brand term
calculate_propensity_no_brand(text_len, brand_score, rating_val) ==
    LET norm_len == Min((text_len * Scale) \div MAX_LEN, Scale)
        norm_rating == Max(0, ((rating_val - 30) * Scale) \div 20)
        logits == W_LENGTH * norm_len + W_RATING * norm_rating
        denom == Fine + DecToFine(ExpNeg(logits \div 4, (10 * Scale) \div 4, 1, 4))
    IN LongDiv(Fine \div denom, Fine % denom, denom, 8)

\* 1 / (1 + np.exp(-logits)) in units 10^-8.  norm_len and norm_rating are in
\* ten-thousandths and the weights in tenths, so `logits` is in units 10^-5; the
\* weights being multiples of 0.4 it is a multiple of 4, and the exponential is
\* taken of the fraction logits / 10^5 in lower terms, to twelve decimals
calculate_propensity(text_len, brand_score, rating_val) ==
    LET norm_len == Min((text_len * Scale) \div MAX_LEN, Scale)
        norm_rating == Max(0, ((rating_val - 30) * Scale) \div 20)
        logits == W_LENGTH * norm_len + W_BRAND * brand_score + W_RATING * norm_rating
        denom == Fine + DecToFine(ExpNeg(logits \div 4, (10 * Scale) \div 4, 1, 4))
    IN LongDiv(Fine \div denom, Fine % denom, denom, 8)

get_brand_score(item_data) ==
    LET brand == IF "brand" \in DOMAIN item_data /\ item_data.brand # <<>>
                 THEN item_data.brand
                 ELSE FirstTwoWords(item_data.title)
        brand_key == BrandKey(brand)
    IN IF brand_key \in DOMAIN brand_map
       THEN brand_map[brand_key].popularity_score
       ELSE 0

(***************************************************************************)
(* apply_pairwise_filter                                                   *)
(***************************************************************************)
RECURSIVE InsertDesc(_, _)
\* x placed after every element whose score is >= its own (a stable sort)
InsertDesc(s, x) ==
    IF s = <<>> THEN <<x>>
    ELSE IF Head(s).visibility_score >= x.visibility_score
         THEN <<Head(s)>> \o InsertDesc(Tail(s), x)
         ELSE <<x>> \o s

RECURSIVE SortByVisibility(_)
\* sorted(raw_rankings, key=visibility_score, reverse=True)
SortByVisibility(r) ==
    IF r = <<>> THEN <<>>
    ELSE InsertDesc(SortByVisibility(SubSeq(r, 1, Len(r) - 1)), r[Len(r)])

\* the rank supplied upstream kept as the derived rank
DeriveRankFromInput(item, position) ==
    [item_id |-> item.item_id, visibility_score |-> item.visibility_score,
     rank |-> item.rank, derived_rank |-> item.rank]

\* item['derived_rank'] = rank_idx + 1
DeriveRank(item, position) ==
    [item_id |-> item.item_id, visibility_score |-> item.visibility_score,
     rank |-> item.rank, derived_rank |-> position]

SortedItems(raw_rankings) ==
    LET s == SortByVisibility(raw_rankings)
    IN [k \in 1..Len(s) |-> DeriveRank(s[k], k)]

\* the ids of the sorted items that have a catalog record
PropIds(catalog, sorted_items) ==
    {sorted_items[k].item_id : k \in 1..Len(sorted_items)} \cap DOMAIN catalog

\* full_data.get('sim_rating', 4.0)
RatingOf(full_data) ==
    IF "sim_rating" \in DOMAIN full_data THEN full_data.sim_rating ELSE DEFAULT_RATING

\* calculate_propensity(len(str(features)), get_brand_score(full_data), rating)
PropensityOf(record) ==
    calculate_propensity(record.features_len, get_brand_score(record), RatingOf(record))

\* the propensities of the records of Profiles, worked out once
ProfilePropensities == [p \in Profiles |-> PropensityOf(p)]

\* PropensityOf, read from the table for a record of Profiles
ItemPropensity(record) ==
    IF record \in Profiles THEN ProfilePropensities[record] ELSE PropensityOf(record)

ItemProps(catalog, sorted_items) ==
    [id \in PropIds(catalog, sorted_items) |-> ItemPropensity(catalog[id])]

\* a dict filled in list order: the last entry of an id is the one kept
ItemVis(catalog, sorted_items) ==
    [id \in PropIds(catalog, sorted_items) |->
        LET last == CHOOSE k \in 1..Len(sorted_items) :
                        /\ sorted_items[k].item_id = id
                        /\ \A m \in (k + 1)..Len(sorted_items) :
                               sorted_items[m].item_id # id
        IN sorted_items[last].visibility_score]

\* every pair weighted 1.0
WeightOne(w_prop) == Fine

\* 1.0 / w_prop, in units 10^-8
Weight(w_prop) == LongDiv(Fine \div w_prop, Fine % w_prop, w_prop, 8)

\* the three admission tests of the inner loop body, on the doubles of the
\* visibility scores (decimals of four places) and of the propensity
Admitted(w_vis, l_vis, w_prop) ==
    /\ ~(w_vis < MIN_VIS)
    /\ ~FloatDiffLess(w_vis, l_vis, MIN_GAP, 4)
    /\ w_prop < THRESHOLD

\* the inner loop body writing the two ranks the wrong way round
PairStepSwappedRanks(sorted_items, item_props, item_vis, i, j) ==
    LET winner == sorted_items[i]
        loser == sorted_items[j]
        w_id == winner.item_id
        l_id == loser.item_id
    IN IF w_id \notin DOMAIN item_props \/ l_id \notin DOMAIN item_props
       THEN <<>>
       ELSE IF Admitted(item_vis[w_id], item_vis[l_id], item_props[w_id])
            THEN << [winner_id |-> w_id,
                     loser_id |-> l_id,
                     winner_rank |-> loser.derived_rank,
                     loser_rank |-> winner.derived_rank,
                     winner_vis |-> item_vis[w_id],
                     loser_vis |-> item_vis[l_id],
                     winner_propensity |-> item_props[w_id],
                     weight |-> Weight(item_props[w_id])] >>
            ELSE <<>>

\* one iteration of the inner loop: the pair appended, if any
PairStep(sorted_items, item_props, item_vis, i, j) ==
    LET winner == sorted_items[i]
        loser == sorted_items[j]
        w_id == winner.item_id
        l_id == loser.item_id
    IN IF w_id \notin DOMAIN item_props \/ l_id \notin DOMAIN item_props
       THEN <<>>
       ELSE IF Admitted(item_vis[w_id], item_vis[l_id], item_props[w_id])
            THEN << [winner_id |-> w_id,
                     loser_id |-> l_id,
                     winner_rank |-> winner.derived_rank,
                     loser_rank |-> loser.derived_rank,
                     winner_vis |-> item_vis[w_id],
                     loser_vis |-> item_vis[l_id],
                     winner_propensity |-> item_props[w_id],
                     weight |-> Weight(item_props[w_id])] >>
            ELSE <<>>

RECURSIVE PairLoopAdjacent(_, _, _, _, _)
\* the loops comparing each item with the next one only
PairLoopAdjacent(sorted_items, item_props, item_vis, i, j) ==
    IF i >= Len(sorted_items) THEN <<>>
    ELSE PairStep(sorted_items, item_props, item_vis, i, i + 1)
         \o PairLoopAdjacent(sorted_items, item_props, item_vis, i + 1, i + 2)

RECURSIVE PairLoop(_, _, _, _, _)
\* for i in range(n): for j in range(i + 1, n)
PairLoop(sorted_items, item_props, item_vis, i, j) ==
    IF i > Len(sorted_items) THEN <<>>
    ELSE IF j > Len(sorted_items)
         THEN PairLoop(sorted_items, item_props, item_vis, i + 1, i + 2)
         ELSE PairStep(sorted_items, item_props, item_vis, i, j)
              \o PairLoop(sorted_items, item_props, item_vis, i, j + 1)

\* a missing catalog record ending the whole query
QueryPairsAllOrNothing(catalog, raw_rankings) ==
    LET sorted_items == SortedItems(raw_rankings)
    IN IF \E k \in 1..Len(sorted_items) : sorted_items[k].item_id \notin DOMAIN catalog
       THEN <<>>
       ELSE PairLoop(sorted_items, ItemProps(catalog, sorted_items),
                     ItemVis(catalog, sorted_items), 1, 2)

\* the ranks numbered over the entries that have a catalog record only
QueryPairsCatalogRanks(catalog, raw_rankings) ==
    LET InCat(item) == item.item_id \in DOMAIN catalog
        sorted_items == SortedItems(SelectSeq(raw_rankings, InCat))
    IN PairLoop(sorted_items, ItemProps(catalog, sorted_items),
                ItemVis(catalog, sorted_items), 1, 2)

QueryPairs(catalog, raw_rankings) ==
    LET sorted_items == SortedItems(raw_rankings)
    IN PairLoop(sorted_items, ItemProps(catalog, sorted_items),
                ItemVis(catalog, sorted_items), 1, 2)

\* a group appended for every query
AppendGroupAlways(data, query, query_pairs) ==
    Append(data, [query |-> query, pairs |-> query_pairs])

\* if query_pairs: grouped_causal_data.append({query, pairs})
AppendGroup(data, query, query_pairs) ==
    IF query_pairs # <<>>
    THEN Append(data, [query |-> query, pairs |-> query_pairs])
    ELSE data

\* an entry whose rankings are empty: `continue`
SkipEmptyEntry ==
    /\ pc = "filter"
    /\ qi < Len(logs)
    /\ qi' = qi + 1
    /\ entry' = [query |-> logs[qi + 1], rankings |-> <<>>]
    /\ UNCHANGED <<pc, logs, item_map, grouped_causal_data, causal_pairs_file>>
    /\ UNCHANGED selectVars
    /\ UNCHANGED <<pureVars, explainVars>>
    /\ UNCHANGED auxVars

\* one iteration of the loop over the logs, its entry's rankings among `lists`
ProcessEntryFrom(lists) ==
    /\ pc = "filter"
    /\ qi < Len(logs)
    /\ \E raw_rankings \in lists \ {<<>>} :
         LET query_pairs == QueryPairs(item_map, raw_rankings)
         IN /\ entry' = [query |-> logs[qi + 1], rankings |-> raw_rankings]
            /\ grouped_causal_data' =
                 AppendGroup(grouped_causal_data, logs[qi + 1], query_pairs)
    /\ qi' = qi + 1
    /\ UNCHANGED <<pc, logs, item_map, causal_pairs_file>>
    /\ UNCHANGED selectVars
    /\ UNCHANGED <<pureVars, explainVars>>
    /\ UNCHANGED auxVars

ProcessEntry == ProcessEntryFrom(RankingLists)

ProcessShortEntry == ProcessEntryFrom(ShortRankingLists)

\* the logs are exhausted: json.dump(grouped_causal_data)
WriteCausalPairs ==
    /\ pc = "filter"
    /\ qi = Len(logs)
    /\ causal_pairs_file' = [written |-> TRUE, data |-> grouped_causal_data]
    /\ pc' = "filter_done"
    /\ UNCHANGED <<logs, item_map, qi, entry, grouped_causal_data>>
    /\ UNCHANGED selectVars
    /\ UNCHANGED <<pureVars, explainVars>>
    /\ UNCHANGED auxVars

NoEntry == [query |-> "", rankings |-> <<>>]
Unwritten == [written |-> FALSE, data |-> <<>>]

SelectIdle ==
    /\ rules = <<>>
    /\ group_idx = 0
    /\ pair_idx = 0
    /\ candidates = <<>>
    /\ candidates_by_query = <<>>
    /\ candidates_file = Unwritten

FilterIdle ==
    /\ logs = <<>>
    /\ item_map = <<>>
    /\ qi = 0
    /\ entry = NoEntry
    /\ grouped_causal_data = <<>>
    /\ causal_pairs_file = Unwritten

NoKeys == [normalized |-> None, renormalized |-> None, lookup |-> None,
           scanned |-> FALSE, raw_brands |-> <<>>]

NoRow == [brand |-> None, title |-> <<>>]

BrandIdle ==
    /\ brand_input = NoRow
    /\ brand_keys = NoKeys

BrandMapIdle ==
    /\ brand_counts = <<>>
    /\ brand_popularity = Unwritten

PropensityIdle ==
    /\ prop_args = <<>>
    /\ propensities = <<>>

AggregateIdle ==
    /\ clusters = <<>>
    /\ cluster_no = 0
    /\ batch_no = 0
    /\ intermediate_lessons = <<>>
    /\ final_principles = <<>>
    /\ principles_file = [written |-> FALSE, data |-> <<>>]
    /\ agg_calls = <<>>

OllamaIdle ==
    /\ retries = 0
    /\ idx = 0
    /\ tried_start_server = FALSE
    /\ requests_made = <<>>
    /\ slept = 0
    /\ ollama_result = None

JsonIdle ==
    /\ json_text = <<>>
    /\ json_result = [kind |-> "idle", value |-> [depth |-> 0 - 1, leaf |-> "none"]]

ToolIdle == AggregateIdle /\ OllamaIdle /\ JsonIdle

AuxIdle ==
    /\ rules_file = [exists |-> FALSE, complete |-> FALSE, data |-> <<>>]
    /\ persisted = {}
    /\ ToolIdle

ExplainIdle ==
    /\ run_no = 0
    /\ ex_group = 0
    /\ ex_pair = 0
    /\ seen_hashes = {}
    /\ processed_pairs_ids = {}
    /\ llm_answers = <<>>
    /\ llm_calls = <<>>
    /\ rules_after_complete = -1

VisibilityIdle ==
    /\ response_text = None
    /\ visibility = <<>>

PureIdle ==
    /\ BrandIdle
    /\ BrandMapIdle
    /\ PropensityIdle
    /\ VisibilityIdle

\* a log of one query, over every catalog and every ranking list
InitFilter ==
    /\ pc = "filter"
    /\ logs = <<"q1">>
    /\ item_map \in Catalogs
    /\ qi = 0
    /\ entry = NoEntry
    /\ grouped_causal_data = <<>>
    /\ causal_pairs_file = Unwritten
    /\ SelectIdle
    /\ PureIdle
    /\ ExplainIdle
    /\ AuxIdle

NextFilter == SkipEmptyEntry \/ ProcessEntry \/ WriteCausalPairs

SpecFilter == InitFilter /\ [][NextFilter]_vars

\* a log of three queries with short ranking lists
InitFilterLog ==
    /\ pc = "filter"
    /\ logs = <<"q1", "q2", "q3">>
    /\ item_map \in ShortCatalogs
    /\ qi = 0
    /\ entry = NoEntry
    /\ grouped_causal_data = <<>>
    /\ causal_pairs_file = Unwritten
    /\ SelectIdle
    /\ PureIdle
    /\ ExplainIdle
    /\ AuxIdle

NextFilterLog == SkipEmptyEntry \/ ProcessShortEntry \/ WriteCausalPairs

SpecFilterLog == InitFilterLog /\ [][NextFilterLog]_vars

(***************************************************************************)
(* Brand keys: normalize_brand when the popularity map is built, and the   *)
(* key of get_brand_score when the filter looks a brand up                 *)
(***************************************************************************)
MaxChunks == 3

\* the pieces raw brand strings are made of
Chunks == { <<"A", "m", "a", "z", "o", "n", " ", "B", "r", "a", "n", "d", " ", "-", " ">>,
            <<" ">>,
            <<"S", "o", "l", "i", "m", "o">>,
            <<"A", "m", "a", "z", "o", "n", "B", "a", "s", "i", "c", "s">>,
            <<"a", "m", "a", "z", "o", "n", " ">>,
            <<"b", "r", "a", "n", "d", " ", "-", " ">> }

RECURSIVE Concat(_)
Concat(parts) == IF parts = <<>> THEN <<>> ELSE Head(parts) \o Concat(Tail(parts))

BrandTexts == {Concat(parts) : parts \in UNION {[1..n -> Chunks] : n \in 0..MaxChunks}}

BrandInputs == {None} \cup {Str(t) : t \in BrandTexts}

\* titles: one of two words, and a blank one that split() finds no word in
RowTitles == {TitleSolimo, <<" ">>}

\* the products of the dataset: the brand of other_attributes and the title
BrandRows == [brand : BrandInputs, title : RowTitles]

\* normalize_brand(x) on the raw brand value, None and '' included
NormalizeBrand ==
    /\ pc = "brand"
    /\ brand_keys.normalized = None
    /\ brand_keys' = [brand_keys EXCEPT
                         !.normalized = Str(normalize_brand(brand_input.brand))]
    /\ UNCHANGED <<pc, brand_input, brand_counts, brand_popularity, filterVars, selectVars, explainVars>>
    /\ UNCHANGED <<prop_args, propensities, response_text, visibility>>
    /\ UNCHANGED auxVars

\* normalize_brand applied to a key it returned
NormalizeAgain ==
    /\ pc = "brand"
    /\ brand_keys.normalized # None
    /\ brand_keys.renormalized = None
    /\ brand_keys' = [brand_keys EXCEPT
                         !.renormalized = Str(normalize_brand(brand_keys.normalized))]
    /\ UNCHANGED <<pc, brand_input, brand_counts, brand_popularity, filterVars, selectVars, explainVars>>
    /\ UNCHANGED <<prop_args, propensities, response_text, visibility>>
    /\ UNCHANGED auxVars

\* the brand of a row: specs.get('brand'), or else the first two words of a
\* title that is not empty
RowBrand(row) ==
    IF Falsy(row.brand) /\ row.title # <<>> THEN Str(FirstTwoWords(row.title))
    ELSE row.brand

\* one row of build_global_brand_map: a brand that is not empty is normalized
\* and appended to raw_brands, and a row without one is passed over
ScanRow ==
    /\ pc = "brand"
    /\ ~brand_keys.scanned
    /\ LET brand == RowBrand(brand_input)
       IN brand_keys' = [brand_keys EXCEPT
              !.scanned = TRUE,
              !.raw_brands = IF Falsy(brand) THEN <<>>
                             ELSE <<normalize_brand(brand)>>]
    /\ UNCHANGED <<pc, brand_input, brand_counts, brand_popularity, filterVars, selectVars, explainVars>>
    /\ UNCHANGED <<prop_args, propensities, response_text, visibility>>
    /\ UNCHANGED auxVars

\* the brand get_brand_score reads: specifications.brand, or else the first
\* two words of the title
ItemBrand(item) ==
    IF Falsy(item.brand) THEN FirstTwoWords(item.title) ELSE item.brand.text

\* get_brand_score on the same product: the key it looks up
LookupBrandKey ==
    /\ pc = "brand"
    /\ brand_keys.lookup = None
    /\ brand_keys' = [brand_keys EXCEPT !.lookup = Str(BrandKey(ItemBrand(brand_input)))]
    /\ UNCHANGED <<pc, brand_input, brand_counts, brand_popularity, filterVars, selectVars, explainVars>>
    /\ UNCHANGED <<prop_args, propensities, response_text, visibility>>
    /\ UNCHANGED auxVars

InitBrand ==
    /\ pc = "brand"
    /\ FilterIdle
    /\ SelectIdle
    /\ ExplainIdle
    /\ brand_input \in BrandRows
    /\ brand_keys = NoKeys
    /\ BrandMapIdle
    /\ PropensityIdle
    /\ VisibilityIdle
    /\ AuxIdle

NextBrand == NormalizeBrand \/ NormalizeAgain \/ ScanRow \/ LookupBrandKey

SpecBrand == InitBrand /\ [][NextBrand]_vars

(***************************************************************************)
(* build_global_brand_map: counts to popularity scores                     *)
(***************************************************************************)
\* the frequencies of the brands of a catalog of several thousand products
CountValues == {1, 2, 3, 4, 2999, 3000}

\* np.log on the counts above, in millionths
Ln(n) ==
    IF n = 1 THEN 0
    ELSE IF n = 2 THEN 693147
    ELSE IF n = 3 THEN 1098612
    ELSE IF n = 4 THEN 1386294
    ELSE IF n = 2999 THEN 8006034
    ELSE 8006368

\* round(a / b, 4) in ten-thousandths, from five decimals of the quotient
RoundedRatio(a, b) == (LongDiv(a \div b, a % b, b, 5) + 5) \div 10

\* a score proportional to the count
PopularityScoreLinear(count, max_freq) == (count * Scale) \div max_freq

\* round(score, 4) with score = 0.0 if count == 1 else log(count) / log(max_freq)
PopularityScore(count, max_freq) ==
    IF count = 1 THEN 0 ELSE RoundedRatio(Ln(count), Ln(max_freq))

\* brand_counts.most_common(1)[0][1]
MaxFreq(counts) ==
    CHOOSE m \in {counts[b] : b \in DOMAIN counts} : \A b \in DOMAIN counts : counts[b] <= m

BrandKeys == {KeySolimo, KeySamsung, Unknown}

CounterValues == UNION {[S -> CountValues] : S \in SUBSET BrandKeys}

\* steps 3 and 4: score every brand and save the map
BuildBrandMap ==
    /\ pc = "brand_map"
    /\ DOMAIN brand_counts # {}
    /\ brand_popularity' =
          [written |-> TRUE,
           data |-> [b \in DOMAIN brand_counts |->
                       [count |-> brand_counts[b],
                        popularity_score |->
                            PopularityScore(brand_counts[b], MaxFreq(brand_counts))]]]
    /\ pc' = "brand_map_done"
    /\ UNCHANGED <<brand_input, brand_keys, brand_counts, filterVars, selectVars, explainVars>>
    /\ UNCHANGED <<prop_args, propensities, response_text, visibility>>
    /\ UNCHANGED auxVars

\* most_common(1)[0] on an empty Counter: IndexError, nothing is saved
BrandMapIndexError ==
    /\ pc = "brand_map"
    /\ DOMAIN brand_counts = {}
    /\ pc' = "brand_map_error"
    /\ UNCHANGED <<brand_input, brand_keys, brand_counts, brand_popularity,
                   filterVars, selectVars, explainVars>>
    /\ UNCHANGED <<prop_args, propensities, response_text, visibility>>
    /\ UNCHANGED auxVars

InitBrandMap ==
    /\ pc = "brand_map"
    /\ FilterIdle
    /\ SelectIdle
    /\ ExplainIdle
    /\ BrandIdle
    /\ brand_counts \in CounterValues
    /\ brand_popularity = Unwritten
    /\ PropensityIdle
    /\ VisibilityIdle
    /\ AuxIdle

NextBrandMap == BuildBrandMap \/ BrandMapIndexError

SpecBrandMap == InitBrandMap /\ [][NextBrandMap]_vars

(***************************************************************************)
(* calculate_propensity on two argument triples that differ in one factor  *)
(***************************************************************************)
\* text lengths up to and beyond max_len, brand scores, ratings from 2.0 to 5.0
TextLengths == {0, 1000, 2000, 2500, 3000}
BrandScores == {0, 5000, 10000}
Ratings == {20, 25, 30, 40, 50}

PropArgs == [text_len : TextLengths, brand_score : BrandScores, rating_val : Ratings]

\* the factors in which the triple b is above the triple a
Raised(a, b) ==
    {f \in {"text_len", "brand_score", "rating_val"} : a[f] < b[f]}

\* b is a with exactly one factor increased
OneFactorRaised(a, b) ==
    /\ Cardinality(Raised(a, b)) = 1
    /\ \A f \in {"text_len", "brand_score", "rating_val"} : a[f] <= b[f]

CalculatePropensities ==
    /\ pc = "propensity"
    /\ propensities = <<>>
    /\ propensities' =
          [k \in 1..Len(prop_args) |->
              calculate_propensity(prop_args[k].text_len, prop_args[k].brand_score,
                                   prop_args[k].rating_val)]
    /\ pc' = "propensity_done"
    /\ UNCHANGED <<prop_args, brand_input, brand_keys, brand_counts, brand_popularity,
                   filterVars, selectVars, explainVars, response_text, visibility>>
    /\ UNCHANGED auxVars

InitPropensity ==
    /\ pc = "propensity"
    /\ FilterIdle
    /\ SelectIdle
    /\ ExplainIdle
    /\ BrandIdle
    /\ BrandMapIdle
    /\ \E a, b \in PropArgs : OneFactorRaised(a, b) /\ prop_args = <<a, b>>
    /\ propensities = <<>>
    /\ VisibilityIdle
    /\ AuxIdle

NextPropensity == CalculatePropensities

SpecPropensity == InitPropensity /\ [][NextPropensity]_vars

(***************************************************************************)
(* calculate_visibility_score (run_simulator.py, verify_optimization.py)   *)
(***************************************************************************)
MaxSentences == 3

\* the number of sentences of the long text, and the index of its sentence
\* that cites A, the next one citing B
LongSentences == 3726
TiedSentence == 3685

Terminators == {".", "!", "?"}

\* where a separator of re.split(r'(?<=[.!?]) +', text) starts: a space
\* right after a terminator
SplitStart(s, k) == s[k] = " " /\ s[k - 1] \in Terminators

RECURSIVE SplitStarts(_, _, _)
\* the starts of the separators among the positions lo..hi, in ascending
\* order
SplitStarts(s, lo, hi) ==
    IF lo > hi THEN <<>>
    ELSE IF lo = hi THEN (IF SplitStart(s, lo) THEN <<lo>> ELSE <<>>)
    ELSE LET mid == (lo + hi) \div 2
         IN SplitStarts(s, lo, mid) \o SplitStarts(s, mid + 1, hi)

RECURSIVE RunEnd(_, _, _)
\* the position after the run of spaces that holds k: the first position
\* after k without a space, looked for among the next w positions, then the
\* next 2 * w, and so on
RunEnd(s, k, w) ==
    LET rest == {j \in (k + 1)..Min(k + w, Len(s)) : s[j] # " "}
    IN IF rest # {} THEN CHOOSE j \in rest : \A m \in rest : j <= m
       ELSE IF k + w >= Len(s) THEN Len(s) + 1
       ELSE RunEnd(s, k + w, 2 * w)

\* re.split(r'(?<=[.!?]) +', text)
SplitSentences(s) ==
    LET starts == SplitStarts(s, 2, Len(s))
        n == Len(starts)
    IN SubSeq([j \in 1..(n + 1) |->
                  SubSeq(s, IF j = 1 THEN 1 ELSE RunEnd(s, starts[j - 1], 1),
                            IF j = n + 1 THEN Len(s) ELSE starts[j] - 1)],
              1, n + 1)

\* item_id in sent
Contains(sent, item_id) ==
    \E k \in 0..(Len(sent) - Len(item_id)) :
        SubSeq(sent, k + 1, k + Len(item_id)) = item_id

\* every sentence credited in full
CitationCountOne(sent) == 1

\* len(re.findall(r'\[', sent)) or 1
CitationCount(sent) ==
    LET n == Cardinality({k \in 1..Len(sent) : sent[k] = "["})
    IN IF n = 0 THEN 1 ELSE n

\* -1 * i / max(len(sentences), 1): the quotient of two ints, a double
DecayExponent(i, n) == FloatDivInt(FloatOfInt(-1 * i), Max(n, 1))

\* the positional weights of the texts of up to MaxSentences + 1 sentences
PosWeights ==
    [p \in {<<i, n>> : i \in 0..MaxSentences, n \in 1..(MaxSentences + 1)} |->
        Exp(DecayExponent(p[1], p[2]))]

\* math.exp(-1 * i / max(len(sentences), 1))
PosWeight(i, n) ==
    IF <<i, Max(n, 1)>> \in DOMAIN PosWeights THEN PosWeights[<<i, Max(n, 1)>>]
    ELSE Exp(DecayExponent(i, n))

\* (1.0 * pos_weight) / citation_count
Credit(pos_weight, citation_count) == FloatDivInt(FloatMul(One, pos_weight), citation_count)

RECURSIVE TotalScore(_, _, _, _, _)
\* the loop over enumerate(sentences) for the sentences of index lo..hi,
\* total_score being `total` before it: the first half of them, then the
\* second half from the total_score the first half leaves
TotalScore(sentences, item_id, lo, hi, total) ==
    IF lo > hi THEN total
    ELSE IF lo = hi
    THEN IF Contains(sentences[lo + 1], item_id)
         THEN FloatAdd(total, Credit(PosWeight(lo, Len(sentences)),
                                     CitationCount(sentences[lo + 1])))
         ELSE total
    ELSE LET mid == (lo + hi) \div 2
             first == TotalScore(sentences, item_id, lo, mid, total)
         IN IF first = total THEN TotalScore(sentences, item_id, mid + 1, hi, total)
            ELSE TotalScore(sentences, item_id, mid + 1, hi, first)

\* round(total_score, 4) for total_score >= 0, in ten-thousandths: the value
\* of the double is rounded, to the even neighbour when it is exactly halfway
Round4(total) == NatInt(RoundShift(NatMulDigit(total.m, Scale), 0 - total.e))

calculate_visibility_score(generated_text, item_id) ==
    IF Falsy(generated_text) THEN 0
    ELSE LET sentences == SplitSentences(generated_text.text)
         IN Round4(TotalScore(sentences, item_id, 0, Len(sentences) - 1, Zero))

\* the ids scored
ScoredIds == {<<"A">>, <<"B">>, <<"C">>}

\* the pieces of generated texts: a sentence citing A, one citing B, one citing
\* neither, one citing both, a period inside a word, and an unbracketed mention
\* followed by two spaces
TextChunks == { <<"[", "A", "]", " ", "x", ".", " ">>,
                <<"[", "B", "]", " ", "x", "!", " ">>,
                <<"x", "?", " ">>,
                <<"[", "A", "]", "[", "B", "]", " ", "x", ".", " ">>,
                <<"x", ".", "x", " ">>,
                <<"A", " ", "x", ".", " ", " ">> }

\* texts of up to MaxSentences pieces, as built and with the final spaces removed
GeneratedTexts ==
    LET built == {Concat(parts) : parts \in UNION {[1..n -> TextChunks] : n \in 0..MaxSentences}}
    IN built \cup {Strip(t) : t \in built}

\* the sentence of index i of the long text: C is cited in the first sentence,
\* A in the sentence TiedSentence, B in the next one
LongSentence(i) ==
    IF i = 0 THEN <<"[", "C", "]", ".">>
    ELSE IF i = TiedSentence THEN <<"[", "A", "]", ".">>
    ELSE IF i = TiedSentence + 1 THEN <<"[", "B", "]", ".">>
    ELSE <<"x", "x", "x", ".">>

\* a text of LongSentences sentences, one space between two sentences
LongText ==
    [p \in 1..(5 * LongSentences - 1) |->
        IF p % 5 = 0 THEN " " ELSE LongSentence(p \div 5)[p % 5]]

ScoreVisibility ==
    /\ pc = "visibility"
    /\ visibility' = [id \in ScoredIds |-> calculate_visibility_score(response_text, id)]
    /\ pc' = "visibility_done"
    /\ UNCHANGED <<response_text, prop_args, propensities, brand_input, brand_keys,
                   brand_counts, brand_popularity, filterVars, selectVars, explainVars>>
    /\ UNCHANGED auxVars

InitVisibility ==
    /\ pc = "visibility"
    /\ FilterIdle
    /\ SelectIdle
    /\ ExplainIdle
    /\ BrandIdle
    /\ BrandMapIdle
    /\ PropensityIdle
    /\ response_text \in {None} \cup {Str(t) : t \in GeneratedTexts \cup {LongText}}
    /\ visibility = <<>>
    /\ AuxIdle

NextVisibility == ScoreVisibility

SpecVisibility == InitVisibility /\ [][NextVisibility]_vars

(***************************************************************************)
(* TargetSelector.select_targets                                           *)
(***************************************************************************)
TOP_RANK == 3
MaxPairs == 3

\* the items of the selector's query, best ranked first
RankedIds == <<"A", "B", "C", "D", "E">>

\* visibility by rank: 1.05, 0.84, 0.63, 0.42, 0.21
VisAtRank(r) == (Len(RankedIds) + 1 - r) * 2100

\* the propensity of a listing of 554 characters, no known brand, rating 3.0,
\* and that of a listing of 1008 characters of the top brand, rating 3.0
PropensityPlain == calculate_propensity(554, 0, 30)
PropensityBranded == calculate_propensity(1008, 10000, 30)

\* propensities of merit winners (all below THRESHOLD)
WinnerPropensities == {PropensityPlain, PropensityBranded}

\* the pair the filter emits for the items ranked w and l, w above l, when the
\* three tests admit it
FilterPair(w, l, props) ==
    [winner_id |-> RankedIds[w],
     loser_id |-> RankedIds[l],
     winner_rank |-> w,
     loser_rank |-> l,
     winner_vis |-> VisAtRank(w),
     loser_vis |-> VisAtRank(l),
     winner_propensity |-> props[w],
     weight |-> Weight(props[w])]

\* the pairs of one query: losers ranked third to fifth; the winners ranked
\* third and fourth have the lower propensity
PairsOf(props) ==
    {p \in {FilterPair(w, l, props) : w \in 1..4, l \in 3..5} :
        /\ p.winner_rank < p.loser_rank
        /\ Admitted(p.winner_vis, p.loser_vis, p.winner_propensity)}

WinnerProps ==
    {props \in [1..4 -> WinnerPropensities] :
        props[3] = PropensityPlain /\ props[4] = PropensityPlain}

NoRepeat(q) == \A a, b \in 1..Len(q) : a # b => q[a] # q[b]

PairLists(props) ==
    UNION {{q \in [1..n -> PairsOf(props)] : NoRepeat(q)} : n \in 0..MaxPairs}

\* a diagnosis of the explainer for the pair (winner, loser) of a query; its
\* source_pair "W_vs_L" is kept as the sequence of the parts around "_vs_"
Rule(query, w_id, l_id) ==
    [source_query |-> query,
     source_pair |-> <<w_id, l_id>>,
     gap_analysis |-> <<"gap", query, w_id, l_id>>,
     generalized_principle |-> <<"principle", query, w_id, l_id>>]

RECURSIVE SeqOfSet(_)
SeqOfSet(S) ==
    IF S = {} THEN <<>>
    ELSE LET x == CHOOSE y \in S : TRUE IN <<x>> \o SeqOfSet(S \ {x})

\* rules files: a diagnosis for any of the losers C, D, E of query q1
RuleFiles ==
    {SeqOfSet({Rule("q1", "A", l) : l \in L}) : L \in SUBSET {"C", "D", "E"}}

\* pair_sig.split('_vs_')[-1]
LoserOfSig(pair_sig) == pair_sig[Len(pair_sig)]

\* the queries of the pairs file
Queries == {"q1", "q2"}

\* valid_rules keyed by the loser alone: a rule serves every query
ValidRulesAnyQuery(rs) ==
    [key \in Queries \X {LoserOfSig(rs[k].source_pair) : k \in 1..Len(rs)} |->
        rs[CHOOSE k \in 1..Len(rs) :
              /\ LoserOfSig(rs[k].source_pair) = key[2]
              /\ \A m \in (k + 1)..Len(rs) : LoserOfSig(rs[m].source_pair) # key[2]]]

\* the rules the loop keys: `if query and pair_sig`, and pair_sig holds a
\* separator, so it has a part before and a part after it
Keyed(rs) ==
    {k \in 1..Len(rs) : rs[k].source_query # "" /\ Len(rs[k].source_pair) >= 2}

\* valid_rules: "query|loser" -> rule, a later rule replacing an earlier one
ValidRules(rs) ==
    [key \in {<<rs[k].source_query, LoserOfSig(rs[k].source_pair)>> : k \in Keyed(rs)} |->
        rs[CHOOSE k \in Keyed(rs) :
              /\ <<rs[k].source_query, LoserOfSig(rs[k].source_pair)>> = key
              /\ \A m \in Keyed(rs) : m > k =>
                    <<rs[m].source_query, LoserOfSig(rs[m].source_pair)>> # key]]

\* rank_gap = pair['loser_rank'] - pair['winner_rank']
RankGap(pair) == pair.loser_rank - pair.winner_rank

\* opportunity_score = rank_gap * weight: an int times the double of the weight
OpportunityScore(pair) == FloatTimes(RankGap(pair), pair.weight, 8)

\* round(x, 2) of the double x, in units 10^-8
Round2(x) == RoundFloat(x, 10^6, 8)

Candidate(pair, rule) ==
    [item_id |-> pair.loser_id,
     current_rank |-> pair.loser_rank,
     current_vis |-> pair.loser_vis,
     \* round(vis_gap, 4): the decimal difference, the double being within
     \* 10^-15 of it
     target_gap_vis |-> pair.winner_vis - pair.loser_vis,
     beaten_by |-> pair.winner_id,
     opportunity_score |-> Round2(OpportunityScore(pair)),
     diagnosis_summary |-> rule.gap_analysis,
     suggested_principle |-> rule.generalized_principle]

RemoveAt(q, k) == SubSeq(q, 1, k - 1) \o SubSeq(q, k + 1, Len(q))

\* the loop body adding the better candidate without removing the existing one
SelectStepKeepBoth(cands, valid_rules, query, pair) ==
    LET key == <<query, pair.loser_id>>
    IN IF key \notin DOMAIN valid_rules THEN cands
       ELSE IF pair.loser_rank <= TOP_RANK THEN cands
       ELSE LET candidate == Candidate(pair, valid_rules[key])
                same == {k \in 1..Len(cands) : cands[k].item_id = pair.loser_id}
            IN IF same # {}
               THEN LET existing == CHOOSE k \in same : \A m \in same : k <= m
                    IN IF FloatGreater(OpportunityScore(pair),
                                       FloatOf(cands[existing].opportunity_score))
                       THEN Append(cands, candidate)
                       ELSE cands
               ELSE Append(cands, candidate)

\* the loop body with the top-3 filter applied to new candidates only
SelectStepTopReplaces(cands, valid_rules, query, pair) ==
    LET key == <<query, pair.loser_id>>
    IN IF key \notin DOMAIN valid_rules THEN cands
       ELSE IF pair.loser_rank < TOP_RANK THEN cands
       ELSE LET candidate == Candidate(pair, valid_rules[key])
                same == {k \in 1..Len(cands) : cands[k].item_id = pair.loser_id}
            IN IF same # {}
               THEN LET existing == CHOOSE k \in same : \A m \in same : k <= m
                    IN IF FloatGreater(OpportunityScore(pair),
                                       FloatOf(cands[existing].opportunity_score))
                       THEN Append(RemoveAt(cands, existing), candidate)
                       ELSE cands
               ELSE Append(cands, candidate)

\* the body of the loop over a group's pairs: the candidates after `pair`
SelectStep(cands, valid_rules, query, pair) ==
    LET key == <<query, pair.loser_id>>
    IN IF key \notin DOMAIN valid_rules THEN cands
       ELSE IF pair.loser_rank <= TOP_RANK THEN cands
       ELSE LET candidate == Candidate(pair, valid_rules[key])
                same == {k \in 1..Len(cands) : cands[k].item_id = pair.loser_id}
            IN IF same # {}
               THEN LET existing == CHOOSE k \in same : \A m \in same : k <= m
                    IN IF FloatGreater(OpportunityScore(pair),
                                       FloatOf(cands[existing].opportunity_score))
                       THEN Append(RemoveAt(cands, existing), candidate)
                       ELSE cands
               ELSE Append(cands, candidate)

RECURSIVE InsertByScore(_, _)
InsertByScore(q, x) ==
    IF q = <<>> THEN <<x>>
    ELSE IF Head(q).opportunity_score >= x.opportunity_score
         THEN <<Head(q)>> \o InsertByScore(Tail(q), x)
         ELSE <<x>> \o q

\* the candidates left in the order the pairs produced them
SortByScoreKeepOrder(q) == q

RECURSIVE SortByScore(_)
\* candidates.sort(key=opportunity_score, reverse=True)
SortByScore(q) ==
    IF q = <<>> THEN <<>>
    ELSE InsertByScore(SortByScore(SubSeq(q, 1, Len(q) - 1)), q[Len(q)])

\* candidates_by_query[query] = candidates, on a dict kept as a sequence of
\* [query, candidates] in insertion order
DictSet(d, query, cands) ==
    IF \E k \in 1..Len(d) : d[k].query = query
    THEN [k \in 1..Len(d) |-> IF d[k].query = query
                              THEN [query |-> query, candidates |-> cands]
                              ELSE d[k]]
    ELSE Append(d, [query |-> query, candidates |-> cands])

CurrentGroup == causal_pairs_file.data[group_idx + 1]

\* one iteration of the loop over the pairs of the current group
SelectPair ==
    /\ pc = "select"
    /\ group_idx < Len(causal_pairs_file.data)
    /\ pair_idx < Len(CurrentGroup.pairs)
    /\ candidates' = SelectStep(candidates, ValidRules(rules), CurrentGroup.query,
                                CurrentGroup.pairs[pair_idx + 1])
    /\ pair_idx' = pair_idx + 1
    /\ UNCHANGED <<pc, rules, group_idx, candidates_by_query, candidates_file>>
    /\ UNCHANGED filterVars
    /\ UNCHANGED <<pureVars, explainVars>>
    /\ UNCHANGED auxVars

\* the end of a group: sort the candidates and record them if there are any
FinishGroup ==
    /\ pc = "select"
    /\ group_idx < Len(causal_pairs_file.data)
    /\ pair_idx = Len(CurrentGroup.pairs)
    /\ candidates_by_query' =
         IF candidates # <<>>
         THEN DictSet(candidates_by_query, CurrentGroup.query, SortByScore(candidates))
         ELSE candidates_by_query
    /\ group_idx' = group_idx + 1
    /\ pair_idx' = 0
    /\ candidates' = <<>>
    /\ UNCHANGED <<pc, rules, candidates_file>>
    /\ UNCHANGED filterVars
    /\ UNCHANGED <<pureVars, explainVars>>
    /\ UNCHANGED auxVars

\* json.dump(candidates_by_query)
WriteCandidates ==
    /\ pc = "select"
    /\ group_idx = Len(causal_pairs_file.data)
    /\ candidates_file' = [written |-> TRUE, data |-> candidates_by_query]
    /\ pc' = "select_done"
    /\ UNCHANGED <<rules, group_idx, pair_idx, candidates, candidates_by_query>>
    /\ UNCHANGED filterVars
    /\ UNCHANGED <<pureVars, explainVars>>
    /\ UNCHANGED auxVars

\* the selector started on a pairs file with one group and a rules file
InitSelect ==
    /\ pc = "select"
    /\ logs = <<"q1">>
    /\ item_map = <<>>
    /\ qi = 1
    /\ entry = NoEntry
    /\ grouped_causal_data = <<>>
    /\ \E props \in WinnerProps : \E pairs \in PairLists(props) \ {<<>>} :
          causal_pairs_file = [written |-> TRUE,
                               data |-> <<[query |-> "q1", pairs |-> pairs]>>]
    /\ rules \in RuleFiles
    /\ group_idx = 0
    /\ pair_idx = 0
    /\ candidates = <<>>
    /\ candidates_by_query = <<>>
    /\ candidates_file = Unwritten
    /\ PureIdle
    /\ ExplainIdle
    /\ AuxIdle

NextSelect == SelectPair \/ FinishGroup \/ WriteCandidates

SpecSelect == InitSelect /\ [][NextSelect]_vars

\* the selector on two groups and on rules of either query: the pairs of the
\* winners A, B over the losers D, E, and rule files of up to MaxRules rules;
\* the second group's query may be the empty string, which no rule is keyed by
MaxRules == 2

\* the diagnoses of the two queries, and one whose source_query is empty
RulePool ==
    {Rule(q, w, l) : q \in Queries, w \in {"A", "B"}, l \in {"D", "E"}}
        \cup {Rule("", "A", "E")}

RuleLists == UNION {[1..n -> RulePool] : n \in 0..MaxRules}

NarrowPairs == {FilterPair(w, l, [r \in 1..4 |-> PropensityPlain]) : w \in 1..2, l \in 4..5}

NarrowPairLists(n) == UNION {{q \in [1..m -> NarrowPairs] : NoRepeat(q)} : m \in 0..n}

InitSelectRules ==
    /\ pc = "select"
    /\ \E q \in {"q2", ""}, p1 \in NarrowPairLists(2), p2 \in NarrowPairLists(1) :
          /\ logs = <<"q1", q>>
          /\ causal_pairs_file = [written |-> TRUE,
                                  data |-> <<[query |-> "q1", pairs |-> p1],
                                             [query |-> q, pairs |-> p2]>>]
    /\ item_map = <<>>
    /\ qi = 2
    /\ entry = NoEntry
    /\ grouped_causal_data = <<>>
    /\ rules \in RuleLists
    /\ group_idx = 0
    /\ pair_idx = 0
    /\ candidates = <<>>
    /\ candidates_by_query = <<>>
    /\ candidates_file = Unwritten
    /\ PureIdle
    /\ ExplainIdle
    /\ AuxIdle

NextSelectRules == SelectPair \/ FinishGroup \/ WriteCandidates

SpecSelectRules == InitSelectRules /\ [][NextSelectRules]_vars

(***************************************************************************)
(* run_explainer (explainer_agent.py), run up to MaxRuns times on the same *)
(* pairs file, each run completing or being interrupted                    *)
(***************************************************************************)
MaxRuns == 2

PrincipleX == <<"p", "x">>
PrincipleY == <<"p", "y">>
GapText == <<"g", "a", "p">>

\* what explain_pair returns: None on an LLM error or unparseable output
\* (ok = FALSE), else the parsed object
Answers ==
    { [ok |-> FALSE, found_gap |-> FALSE, generalized_principle |-> <<>>],
      [ok |-> TRUE,  found_gap |-> FALSE, generalized_principle |-> <<>>],
      [ok |-> TRUE,  found_gap |-> TRUE,  generalized_principle |-> PrincipleX],
      [ok |-> TRUE,  found_gap |-> TRUE,  generalized_principle |-> PrincipleY] }

\* data/causal_pairs.json: the pair A over B in both queries, A over C in q1
ExplainerPairs ==
    LET props == [r \in 1..4 |-> PropensityPlain]
    IN << [query |-> "q1", pairs |-> <<FilterPair(1, 2, props), FilterPair(1, 3, props)>>],
          [query |-> "q2", pairs |-> <<FilterPair(1, 2, props)>>] >>

\* the prompts of the pairs file, by query, winner and loser
PromptKeys ==
    UNION {{<<ExplainerPairs[g].query, ExplainerPairs[g].pairs[k].winner_id,
              ExplainerPairs[g].pairs[k].loser_id>> :
               k \in 1..Len(ExplainerPairs[g].pairs)} : g \in 1..Len(ExplainerPairs)}

\* item_map of the explainer: the records of data/query.json, C possibly missing
RepoRecords(ids) == [id \in ids |-> [item_id |-> id]]

ExplainerCatalogs == {RepoRecords({"A", "B", "C"}), RepoRecords({"A", "B"})}

\* pair_signature = f"{w_id}_vs_{l_id}", kept as the parts around "_vs_"
PairSignature(w_id, l_id) == <<w_id, l_id>>

\* hashlib.md5(text.encode()).hexdigest()
Md5(text) == <<"md5", text>>

\* {md5(r['rule']) for r in rules if 'rule' in r}
SeenHashesOf(rs) ==
    {Md5(rs[k].rule) : k \in {m \in 1..Len(rs) : "rule" \in DOMAIN rs[m]}}

\* a resume that remembers no signature
ProcessedIdsNone(rs) == {}

\* load_existing_progress: the signatures of the rules loaded
ProcessedIdsOf(rs) ==
    {rs[k].source_pair : k \in {m \in 1..Len(rs) : "source_pair" \in DOMAIN rs[m]}}

\* the rules a starting run finds: none when the file is missing or json.load fails on it
load_existing_progress(file) ==
    IF file.exists /\ file.complete THEN file.data ELSE <<>>

\* the start of a run: load the repository, the rules file and the progress
StartRun ==
    /\ pc = "explain_start"
    /\ run_no < MaxRuns
    /\ run_no' = run_no + 1
    /\ item_map' = RepoRecords(DOMAIN item_map)
    /\ rules' = load_existing_progress(rules_file)
    /\ processed_pairs_ids' = ProcessedIdsOf(rules')
    /\ seen_hashes' = SeenHashesOf(rules')
    /\ ex_group' = 0
    /\ ex_pair' = 0
    /\ pc' = "explain"
    /\ UNCHANGED <<logs, qi, entry, grouped_causal_data, causal_pairs_file>>
    /\ UNCHANGED <<group_idx, pair_idx, candidates, candidates_by_query, candidates_file>>
    /\ UNCHANGED <<pureVars, llm_answers, llm_calls, rules_after_complete>>
    /\ UNCHANGED auxVars

ExGroup == causal_pairs_file.data[ex_group + 1]

\* the outcome of the loop body for an answer of the LLM
OutcomeOf(insight, seen) ==
    IF ~insight.ok THEN "error"
    ELSE IF ~insight.found_gap THEN "no_gap"
    ELSE IF Md5(insight.generalized_principle) \in seen THEN "duplicate"
    ELSE "new_rule"

\* the loop body for the next pair of the current group, up to the call of
\* explain_pair: a pair already processed or without both records is passed
\* over; else the ranks are written into the records and the LLM is called,
\* and the run waits for its answer
ExplainPair ==
    /\ pc = "explain"
    /\ ex_group < Len(causal_pairs_file.data)
    /\ ex_pair < Len(ExGroup.pairs)
    /\ LET pair == ExGroup.pairs[ex_pair + 1]
           query == ExGroup.query
           w_id == pair.winner_id
           l_id == pair.loser_id
           pair_signature == PairSignature(w_id, l_id)
       IN IF pair_signature \in processed_pairs_ids
             \/ w_id \notin DOMAIN item_map \/ l_id \notin DOMAIN item_map
          THEN /\ ex_pair' = ex_pair + 1
               /\ UNCHANGED <<pc, item_map, llm_calls>>
          ELSE /\ item_map' = [item_map EXCEPT
                                 ![w_id] = [item_id |-> w_id, rank |-> pair.winner_rank],
                                 ![l_id] = [item_id |-> l_id, rank |-> pair.loser_rank]]
               /\ llm_calls' = Append(llm_calls,
                                      [run |-> run_no, query |-> query,
                                       pair_signature |-> pair_signature,
                                       outcome |-> "pending"])
               /\ pc' = "explain_llm"
               /\ UNCHANGED ex_pair
    /\ UNCHANGED <<logs, qi, entry, grouped_causal_data, causal_pairs_file>>
    /\ UNCHANGED <<group_idx, pair_idx, candidates, candidates_by_query, candidates_file>>
    /\ UNCHANGED <<rules, seen_hashes, processed_pairs_ids>>
    /\ UNCHANGED <<pureVars, run_no, ex_group, llm_answers, rules_after_complete>>
    /\ UNCHANGED auxVars

\* explain_pair has returned: the rest of the loop body up to the incremental
\* save; a new rule is appended in memory and the save is the next statement
HandleInsight ==
    /\ pc = "explain_llm"
    /\ LET pair == ExGroup.pairs[ex_pair + 1]
           query == ExGroup.query
           pair_signature == PairSignature(pair.winner_id, pair.loser_id)
           insight == llm_answers[<<query, pair.winner_id, pair.loser_id>>]
           outcome == OutcomeOf(insight, seen_hashes)
       IN /\ llm_calls' = [llm_calls EXCEPT ![Len(llm_calls)].outcome = outcome]
          /\ IF outcome = "new_rule"
             THEN LET full_rule == [source_query |-> query,
                                    source_pair |-> pair_signature,
                                    gap_analysis |-> GapText,
                                    generalized_principle |->
                                        insight.generalized_principle]
                  IN /\ rules' = Append(rules, full_rule)
                     /\ seen_hashes' =
                           seen_hashes \cup {Md5(insight.generalized_principle)}
                     /\ processed_pairs_ids' =
                           processed_pairs_ids \cup {pair_signature}
                     /\ pc' = "explain_save"
             ELSE /\ pc' = "explain"
                  /\ UNCHANGED <<rules, seen_hashes, processed_pairs_ids>>
    /\ ex_pair' = ex_pair + 1
    /\ UNCHANGED <<logs, item_map, qi, entry, grouped_causal_data, causal_pairs_file>>
    /\ UNCHANGED <<group_idx, pair_idx, candidates, candidates_by_query, candidates_file>>
    /\ UNCHANGED <<pureVars, run_no, ex_group, llm_answers, rules_after_complete>>
    /\ UNCHANGED auxVars

\* the incremental save, first half: open(OUTPUT_RULES, 'w') creates or empties the file
OpenRulesFile ==
    /\ pc = "explain_save"
    /\ rules_file' = [exists |-> TRUE, complete |-> FALSE, data |-> <<>>]
    /\ pc' = "explain_dump"
    /\ UNCHANGED <<filterVars, selectVars, pureVars, explainVars, persisted, toolVars>>

\* the incremental save, second half: json.dump writes the whole list and the file closes
DumpRules ==
    /\ pc = "explain_dump"
    /\ rules_file' = [exists |-> TRUE, complete |-> TRUE, data |-> rules]
    /\ persisted' = persisted \cup {rules[k] : k \in 1..Len(rules)}
    /\ pc' = "explain"
    /\ UNCHANGED <<filterVars, selectVars, pureVars, explainVars, toolVars>>

\* the end of a group's pairs
NextExplainGroup ==
    /\ pc = "explain"
    /\ ex_group < Len(causal_pairs_file.data)
    /\ ex_pair = Len(ExGroup.pairs)
    /\ ex_group' = ex_group + 1
    /\ ex_pair' = 0
    /\ UNCHANGED <<pc, filterVars, selectVars, pureVars, auxVars>>
    /\ UNCHANGED <<run_no, seen_hashes, processed_pairs_ids, llm_answers, llm_calls,
                   rules_after_complete>>

\* the run reaches "Exploration Complete"
FinishRun ==
    /\ pc = "explain"
    /\ ex_group = Len(causal_pairs_file.data)
    /\ rules_after_complete' =
          IF rules_after_complete = -1 THEN Len(rules) ELSE rules_after_complete
    /\ pc' = "explain_start"
    /\ UNCHANGED <<filterVars, selectVars, pureVars, auxVars>>
    /\ UNCHANGED <<run_no, ex_group, ex_pair, seen_hashes, processed_pairs_ids,
                   llm_answers, llm_calls>>

\* the process is killed: between two pairs, while explain_pair waits for the
\* LLM, before the save of a new rule, or between the two halves of the save; the
\* rules file stays as it is on disk
InterruptRun ==
    /\ \/ pc = "explain" /\ ex_group < Len(causal_pairs_file.data)
       \/ pc \in {"explain_llm", "explain_save", "explain_dump"}
    /\ pc' = "explain_start"
    /\ UNCHANGED <<filterVars, selectVars, pureVars, auxVars>>
    /\ UNCHANGED <<run_no, ex_group, ex_pair, seen_hashes, processed_pairs_ids,
                   llm_answers, llm_calls, rules_after_complete>>

InitExplain ==
    /\ pc = "explain_start"
    /\ logs = <<>>
    /\ item_map \in ExplainerCatalogs
    /\ qi = 0
    /\ entry = NoEntry
    /\ grouped_causal_data = <<>>
    /\ causal_pairs_file = [written |-> TRUE, data |-> ExplainerPairs]
    /\ SelectIdle
    /\ BrandIdle /\ BrandMapIdle /\ PropensityIdle /\ VisibilityIdle
    /\ run_no = 0
    /\ ex_group = 0
    /\ ex_pair = 0
    /\ seen_hashes = {}
    /\ processed_pairs_ids = {}
    /\ llm_answers \in [PromptKeys -> Answers]
    /\ llm_calls = <<>>
    /\ rules_after_complete = -1
    /\ rules_file = [exists |-> FALSE, complete |-> FALSE, data |-> <<>>]
    /\ persisted = {}
    /\ ToolIdle

NextExplain ==
    \/ StartRun
    \/ ExplainPair
    \/ HandleInsight
    \/ OpenRulesFile
    \/ DumpRules
    \/ NextExplainGroup
    \/ FinishRun
    \/ InterruptRun

SpecExplain == InitExplain /\ [][NextExplain]_vars

(***************************************************************************)
(* _clean_json (rule_aggregator.py, explainer_agent.py, simulator_agent.py)*)
(* A response text is a sequence of tokens, written out as                 *)
(*   "{" and "}" as themselves, "k" as "k": 1, "n" as "n": followed by a   *)
(*   value, "t" as "theme": "T", "lesson": "L", "7" as the number 7 and    *)
(*   "x" as a word of prose,                                               *)
(* separated by spaces.  The JSON values over these tokens are 7, {},      *)
(* {"k": 1}, {"theme": "T", "lesson": "L"} and {"n": value}.               *)
(***************************************************************************)
MaxTokens == 5

Tokens == {"{", "}", "k", "n", "t", "7", "x"}

Texts == UNION {[1..n -> Tokens] : n \in 0..MaxTokens}

RECURSIVE IsObject(_), IsValue(_)
\* the token sequences json.loads accepts as an object
IsObject(s) ==
    /\ Len(s) >= 2
    /\ s[1] = "{"
    /\ s[Len(s)] = "}"
    /\ LET inner == SubSeq(s, 2, Len(s) - 1)
       IN \/ inner = <<>>
          \/ inner = <<"k">>
          \/ inner = <<"t">>
          \/ Len(inner) >= 2 /\ inner[1] = "n" /\ IsValue(Tail(inner))

\* the token sequences json.loads accepts
IsValue(s) == s = <<"7">> \/ IsObject(s)

NoValue == [depth |-> 0 - 1, leaf |-> "none"]

RECURSIVE Decode(_)
\* the value json.loads returns: the innermost value under depth keys "n"
Decode(s) ==
    IF s = <<"7">> THEN [depth |-> 0, leaf |-> "7"]
    ELSE IF s = <<"{", "}">> THEN [depth |-> 0, leaf |-> "{}"]
    ELSE IF s = <<"{", "k", "}">> THEN [depth |-> 0, leaf |-> "{k: 1}"]
    ELSE IF s = <<"{", "t", "}">> THEN [depth |-> 0, leaf |-> "{theme, lesson}"]
    ELSE LET v == Decode(SubSeq(s, 3, Len(s) - 1))
         IN [depth |-> v.depth + 1, leaf |-> v.leaf]

\* json.loads: the value, or a JSONDecodeError
json_loads(s) ==
    IF IsValue(s) THEN [ok |-> TRUE, value |-> Decode(s)]
    ELSE [ok |-> FALSE, value |-> NoValue]

\* re.search(r"\{.*\}", text, re.DOTALL): from the first "{" to the last "}" after it
re_search(text) ==
    LET opens == {i \in 1..Len(text) : text[i] = "{"}
        first == CHOOSE i \in opens : \A j \in opens : i <= j
        closes == {i \in 1..Len(text) : text[i] = "}" /\ i > first}
        last == CHOOSE i \in closes : \A j \in closes : i >= j
    IN IF opens = {} \/ closes = {}
       THEN [found |-> FALSE, group |-> <<>>]
       ELSE [found |-> TRUE, group |-> SubSeq(text, first, last)]

\* how _clean_json(text) ends: a value returned, None returned, or the
\* JSONDecodeError of the second json.loads raised to the caller
clean_json(text) ==
    IF json_loads(text).ok
    THEN [kind |-> "value", value |-> json_loads(text).value]
    ELSE IF re_search(text).found
         THEN IF json_loads(re_search(text).group).ok
              THEN [kind |-> "value", value |-> json_loads(re_search(text).group).value]
              ELSE [kind |-> "raised", value |-> NoValue]
         ELSE [kind |-> "none", value |-> NoValue]

CleanJson ==
    /\ pc = "clean_json"
    /\ json_result' = clean_json(json_text)
    /\ pc' = "clean_json_done"
    /\ UNCHANGED <<filterVars, selectVars, pureVars, explainVars>>
    /\ UNCHANGED <<rules_file, persisted, aggregateVars, ollamaVars, json_text>>

InitCleanJson ==
    /\ pc = "clean_json"
    /\ FilterIdle
    /\ SelectIdle
    /\ PureIdle
    /\ ExplainIdle
    /\ rules_file = [exists |-> FALSE, complete |-> FALSE, data |-> <<>>]
    /\ persisted = {}
    /\ AggregateIdle
    /\ OllamaIdle
    /\ json_text \in Texts
    /\ json_result = [kind |-> "idle", value |-> NoValue]

SpecCleanJson == InitCleanJson /\ [][CleanJson]_vars

(***************************************************************************)
(* call_ollama (ollama_utils.py)                                           *)
(***************************************************************************)
RETRIES == 8

\* the retries argument: the default and smaller ones
RetryArgs == {0, 1, 2, RETRIES}

\* how a request ends: a response, or one of the four handled kinds of failure
Failures == {"ConnectionError", "HTTPError", "RequestException", "Exception"}

\* json_response.get("response", ""): the key may be absent
ResponseTexts == {None, Str(<<>>), Str(<<" ", "o", "k", " ">>)}

Requests ==
    {[outcome |-> "ok", response |-> t] : t \in ResponseTexts}
    \cup {[outcome |-> f, response |-> None] : f \in Failures}

\* the loop that posts once more than range(retries) does
InRangeInclusive(i, n) == i <= n

\* for idx in range(retries)
InRange(i, n) == i < n

\* json_response.get("response", "").strip()
ResultOf(response) == IF response.none THEN Str(<<>>) ELSE Str(Strip(response.text))

\* the seconds slept after a failed attempt: run() and 5 more the first time the
\* connection fails, 3 + idx ** 2 otherwise
SleepTime(failure, i, tried) ==
    IF failure = "ConnectionError" /\ ~tried THEN 5 + 5 ELSE 3 + i * i

\* one iteration of the loop: a request posted, answered or failed
Attempt ==
    /\ pc = "ollama"
    /\ InRange(idx, retries)
    /\ \E request \in Requests :
          /\ requests_made' = Append(requests_made, request)
          /\ IF request.outcome = "ok"
             THEN /\ ollama_result' = ResultOf(request.response)
                  /\ pc' = "ollama_done"
                  /\ UNCHANGED <<idx, tried_start_server, slept>>
             ELSE /\ slept' = slept + SleepTime(request.outcome, idx, tried_start_server)
                  /\ tried_start_server' =
                        (tried_start_server \/ request.outcome = "ConnectionError")
                  /\ idx' = idx + 1
                  /\ UNCHANGED <<pc, ollama_result>>
    /\ UNCHANGED <<filterVars, selectVars, pureVars, explainVars>>
    /\ UNCHANGED <<rules_file, persisted, aggregateVars, jsonVars, retries>>

\* the loop is exhausted: return ""
AllAttemptsFailed ==
    /\ pc = "ollama"
    /\ ~InRange(idx, retries)
    /\ ollama_result' = Str(<<>>)
    /\ pc' = "ollama_done"
    /\ UNCHANGED <<filterVars, selectVars, pureVars, explainVars>>
    /\ UNCHANGED <<rules_file, persisted, aggregateVars, jsonVars>>
    /\ UNCHANGED <<retries, idx, tried_start_server, requests_made, slept>>

InitOllama ==
    /\ pc = "ollama"
    /\ FilterIdle
    /\ SelectIdle
    /\ PureIdle
    /\ ExplainIdle
    /\ rules_file = [exists |-> FALSE, complete |-> FALSE, data |-> <<>>]
    /\ persisted = {}
    /\ AggregateIdle
    /\ JsonIdle
    /\ retries \in RetryArgs
    /\ idx = 0
    /\ tried_start_server = FALSE
    /\ requests_made = <<>>
    /\ slept = 0
    /\ ollama_result = None

NextOllama == Attempt \/ AllAttemptsFailed

\* a request ends within its timeout and a sleep ends: the loop keeps stepping
SpecOllama == InitOllama /\ [][NextOllama]_vars /\ WF_vars(NextOllama)

(***************************************************************************)
(* RuleAggregator (rule_aggregator.py)                                     *)
(* A diagnosis is its number in the rules file.  auto_cluster_rules is an  *)
(* input: the clusters it returns, each with its diagnoses in file order.  *)
(* A parsed value is what Decode gives for the response text.              *)
(***************************************************************************)
BATCH_SIZE == 15

\* the sizes of the clusters returned, by cluster id
ClusterSizeLists ==
    {<<n>> : n \in {1, 2, 15, 16, 30, 31}}
    \cup {<<a, b>> : a \in {0, 1, 16}, b \in {1, 2}}
    \cup {<<1, 0>>}

RECURSIVE SumSeq(_)
SumSeq(s) == IF s = <<>> THEN 0 ELSE Head(s) + SumSeq(Tail(s))

\* the cluster lists for a list of sizes: consecutive blocks of the rules file
ClustersOfSizes(sizes) ==
    [c \in 1..Len(sizes) |->
        [k \in 1..sizes[c] |-> SumSeq(SubSeq(sizes, 1, c - 1)) + k]]

ClusterInputs == {ClustersOfSizes(sizes) : sizes \in ClusterSizeLists}

\* what the LLM may answer: nothing, prose, braces around prose, a number, an
\* empty object, an object without theme and lesson, and an object with them,
\* bare or inside prose
AggResponses ==
    {<<>>, <<"x">>, <<"{", "x", "}">>, <<"7">>, <<"{", "}">>, <<"{", "k", "}">>,
     <<"{", "t", "}">>, <<"x", "{", "t", "}", "x">>}

\* bool(value) for a parsed value: the empty dict is false, 7 is true
Truthy(parsed) == parsed.kind = "value" /\ parsed.value # [depth |-> 0, leaf |-> "{}"]

IsDict(value) == value.leaf # "7" \/ value.depth > 0

\* value['theme'] and value['lesson'] can be read
HasLesson(value) == value = [depth |-> 0, leaf |-> "{theme, lesson}"]

\* try: return self._clean_json(call_ollama(prompt)) / except: return None
CleanOrNone(response) ==
    IF clean_json(response).kind = "raised"
    THEN [kind |-> "none", value |-> NoValue]
    ELSE clean_json(response)

\* the number of iterations of range(0, len(cluster_rules), BATCH_SIZE)
NumBatches(cluster_rules) == (Len(cluster_rules) + BATCH_SIZE - 1) \div BATCH_SIZE

\* a batch that loses its last diagnosis
BatchShort(cluster_rules, i) ==
    SubSeq(cluster_rules, i + 1, Min(i + BATCH_SIZE - 1, Len(cluster_rules)))

\* cluster_rules[i : i+BATCH_SIZE], i counted from 0
Batch(cluster_rules, i) ==
    SubSeq(cluster_rules, i + 1, Min(i + BATCH_SIZE, Len(cluster_rules)))

\* the digest of _synthesize_batch: one observation per diagnosis, numbered from 1
Digest(rules_subset) ==
    [k \in 1..Len(rules_subset) |-> [obs |-> k, analysis |-> rules_subset[k]]]

\* the support of the first batch only
SupportCountOfBatch(cluster_rules) == Min(Len(cluster_rules), BATCH_SIZE)

\* principle['support_count'] = len(rules)
SupportCount(cluster_rules) == Len(cluster_rules)

CurrentCluster == clusters[cluster_no + 1]

\* one iteration of the map loop: a batch summarized by its own LLM call
SynthesizeBatch ==
    /\ pc = "aggregate"
    /\ cluster_no < Len(clusters)
    /\ CurrentCluster # <<>>
    /\ batch_no < NumBatches(CurrentCluster)
    /\ \E response \in AggResponses :
          LET batch == Batch(CurrentCluster, batch_no * BATCH_SIZE)
              result == CleanOrNone(response)
          IN /\ agg_calls' = Append(agg_calls,
                                    [cluster_id |-> cluster_no, phase |-> "map",
                                     digest |-> Digest(batch), findings |-> <<>>,
                                     response |-> response])
             /\ intermediate_lessons' =
                   IF Truthy(result) THEN Append(intermediate_lessons, result.value)
                   ELSE intermediate_lessons
    /\ batch_no' = batch_no + 1
    /\ UNCHANGED <<pc, clusters, cluster_no, final_principles, principles_file>>
    /\ UNCHANGED <<filterVars, selectVars, pureVars, explainVars>>
    /\ UNCHANGED <<rules_file, persisted, ollamaVars, jsonVars>>

\* the findings are formatted outside any try: a kept summary that is not a
\* dict, or has no theme or lesson, raises TypeError or KeyError
FormatRaises(lessons) == \E k \in 1..Len(lessons) : ~HasLesson(lessons[k])

\* the reduce phase of the current cluster and what run_aggregation does with
\* its result
ReduceCluster ==
    /\ pc = "aggregate"
    /\ cluster_no < Len(clusters)
    /\ CurrentCluster # <<>>
    /\ batch_no = NumBatches(CurrentCluster)
    /\ IF FormatRaises(intermediate_lessons)
       THEN /\ pc' = "aggregate_raised"
            /\ UNCHANGED <<cluster_no, batch_no, intermediate_lessons, final_principles,
                           agg_calls>>
       ELSE \E response \in AggResponses :
               LET principle == CleanOrNone(response)
               IN /\ agg_calls' = Append(agg_calls,
                                         [cluster_id |-> cluster_no, phase |-> "reduce",
                                          digest |-> <<>>,
                                          findings |-> intermediate_lessons,
                                          response |-> response])
                  /\ IF ~Truthy(principle)
                     THEN /\ cluster_no' = cluster_no + 1
                          /\ batch_no' = 0
                          /\ intermediate_lessons' = <<>>
                          /\ UNCHANGED <<pc, final_principles>>
                     ELSE IF ~IsDict(principle.value)
                          THEN /\ pc' = "aggregate_raised"
                               /\ UNCHANGED <<cluster_no, batch_no, intermediate_lessons,
                                              final_principles>>
                          ELSE /\ final_principles' =
                                     Append(final_principles,
                                            [principle |-> principle.value,
                                             support_count |-> SupportCount(CurrentCluster),
                                             cluster_id |-> cluster_no])
                               /\ cluster_no' = cluster_no + 1
                               /\ batch_no' = 0
                               /\ intermediate_lessons' = <<>>
                               /\ UNCHANGED pc
    /\ UNCHANGED <<clusters, principles_file>>
    /\ UNCHANGED <<filterVars, selectVars, pureVars, explainVars>>
    /\ UNCHANGED <<rules_file, persisted, ollamaVars, jsonVars>>

\* if not rules: continue
SkipEmptyCluster ==
    /\ pc = "aggregate"
    /\ cluster_no < Len(clusters)
    /\ CurrentCluster = <<>>
    /\ cluster_no' = cluster_no + 1
    /\ UNCHANGED <<pc, clusters, batch_no, intermediate_lessons, final_principles,
                   principles_file, agg_calls>>
    /\ UNCHANGED <<filterVars, selectVars, pureVars, explainVars>>
    /\ UNCHANGED <<rules_file, persisted, ollamaVars, jsonVars>>

\* the principles file written after the last cluster
SavePrinciples ==
    /\ pc = "aggregate"
    /\ cluster_no = Len(clusters)
    /\ principles_file' = [written |-> TRUE, data |-> final_principles]
    /\ pc' = "aggregate_done"
    /\ UNCHANGED <<clusters, cluster_no, batch_no, intermediate_lessons, final_principles,
                   agg_calls>>
    /\ UNCHANGED <<filterVars, selectVars, pureVars, explainVars>>
    /\ UNCHANGED <<rules_file, persisted, ollamaVars, jsonVars>>

InitAggregate ==
    /\ pc = "aggregate"
    /\ FilterIdle
    /\ SelectIdle
    /\ PureIdle
    /\ ExplainIdle
    /\ rules_file = [exists |-> FALSE, complete |-> FALSE, data |-> <<>>]
    /\ persisted = {}
    /\ OllamaIdle
    /\ JsonIdle
    /\ clusters \in ClusterInputs
    /\ cluster_no = 0
    /\ batch_no = 0
    /\ intermediate_lessons = <<>>
    /\ final_principles = <<>>
    /\ principles_file = [written |-> FALSE, data |-> <<>>]
    /\ agg_calls = <<>>

NextAggregate == SynthesizeBatch \/ ReduceCluster \/ SkipEmptyCluster \/ SavePrinciples

SpecAggregate == InitAggregate /\ [][NextAggregate]_vars

(***************************************************************************)
(* The filter's claims.  They are stated on the log entry of the current   *)
(* iteration (entry), the catalog (item_map) and the groups emitted so far.*)
(***************************************************************************)
EntryDone == entry # NoEntry

raw == entry.rankings

\* the pairs emitted for the current entry's query
EntryPairs ==
    IF \E g \in 1..Len(grouped_causal_data) : grouped_causal_data[g].query = entry.query
    THEN grouped_causal_data[CHOOSE g \in 1..Len(grouped_causal_data) :
                                 grouped_causal_data[g].query = entry.query].pairs
    ELSE <<>>

\* every pair of every group emitted so far, and of the output file
EmittedPairs ==
    UNION {{grouped_causal_data[g].pairs[k] : k \in 1..Len(grouped_causal_data[g].pairs)} :
              g \in 1..Len(grouped_causal_data)}
    \cup
    UNION {{causal_pairs_file.data[g].pairs[k] : k \in 1..Len(causal_pairs_file.data[g].pairs)} :
              g \in 1..Len(causal_pairs_file.data)}

\* the rank of the k-th input entry in the visibility order: one more than the
\* number of entries that score higher, or score the same and come earlier
ExpectedRank(k) ==
    1 + Cardinality({m \in 1..Len(raw) : raw[m].visibility_score > raw[k].visibility_score})
      + Cardinality({m \in 1..(k - 1) : raw[m].visibility_score = raw[k].visibility_score})

IndexOfId(id) == CHOOSE k \in 1..Len(raw) : raw[k].item_id = id

InCatalog(k) == raw[k].item_id \in DOMAIN item_map

PropensityOfId(id) == ItemPropensity(item_map[id])

\* the three admission conditions as the specification words them (strict)
StrictlyAdmissible(a, b) ==
    /\ raw[a].visibility_score > MIN_VIS
    /\ raw[a].visibility_score - raw[b].visibility_score > MIN_GAP
    /\ PropensityOfId(raw[a].item_id) < THRESHOLD

EmittedTimes(a, b) ==
    Cardinality({k \in 1..Len(EntryPairs) :
                    /\ EntryPairs[k].winner_id = raw[a].item_id
                    /\ EntryPairs[k].loser_id = raw[b].item_id})

\* C1 (as claimed): every emitted pair has winner visibility strictly above the
\* floor 0.1, a visibility gap strictly above 0.2 and winner propensity strictly
\* below THRESHOLD.
C1_AdmissionStrict ==
    \A p \in EmittedPairs :
        /\ p.winner_vis > MIN_VIS
        /\ p.winner_vis - p.loser_vis > MIN_GAP
        /\ p.winner_propensity < THRESHOLD

\* C2: for rankings with distinct item ids, every pair of catalog items (a above
\* b in the visibility order, adjacent or not) that meets the three admission
\* conditions is emitted exactly once, a as winner and b as loser.
C2_AdmissionComplete ==
    (EntryDone /\ DistinctIds(raw)) =>
        \A a, b \in 1..Len(raw) :
            (/\ ExpectedRank(a) < ExpectedRank(b)
             /\ InCatalog(a) /\ InCatalog(b)
             /\ StrictlyAdmissible(a, b))
            => EmittedTimes(a, b) = 1

\* a pair of non-adjacent ranks was emitted, and an entry with exactly one
\* admissible pair yielded exactly one pair
C2_Witness ==
    /\ EntryDone
    /\ Len(raw) = 3
    /\ Len(EntryPairs) = 1
    /\ EntryPairs[1].winner_rank = 1
    /\ EntryPairs[1].loser_rank = 3
    /\ \E a, b \in 1..3 : /\ ExpectedRank(a) = 1 /\ ExpectedRank(b) = 3
                          /\ InCatalog(a) /\ InCatalog(b)
                          /\ StrictlyAdmissible(a, b)

\* C3: the sorted items are the input entries in visibility order, ties in input
\* order, derived_rank = position + 1, so the derived ranks are exactly 1..n; the
\* ranks written to a pair are these, whatever rank the input supplied.
C3_RankDerivation ==
    EntryDone =>
        LET sorted_items == SortedItems(raw)
        IN /\ Len(sorted_items) = Len(raw)
           /\ {sorted_items[k].derived_rank : k \in 1..Len(sorted_items)} = 1..Len(raw)
           /\ \A k \in 1..Len(sorted_items) :
                 /\ sorted_items[k].derived_rank = k
                 /\ sorted_items[k].item_id = raw[sorted_items[k].rank].item_id
                 /\ sorted_items[k].derived_rank = ExpectedRank(sorted_items[k].rank)
           /\ \A k \in 1..Len(EntryPairs) :
                 /\ EntryPairs[k].winner_rank = ExpectedRank(IndexOfId(EntryPairs[k].winner_id))
                 /\ EntryPairs[k].loser_rank = ExpectedRank(IndexOfId(EntryPairs[k].loser_id))

\* a pair was emitted whose winner was supplied with another rank than the one
\* derived, from rankings with a tie
C3_Witness ==
    /\ EntryDone
    /\ \E k \in 1..Len(EntryPairs) :
          EntryPairs[k].winner_rank # IndexOfId(EntryPairs[k].winner_id)
    /\ \E a, b \in 1..Len(raw) :
          a # b /\ raw[a].visibility_score = raw[b].visibility_score

\* C4: an item without a catalog record is neither winner nor loser of an
\* emitted pair, and it removes only the pairs it is part of: every pair of
\* catalog items that passes the admission tests is still emitted.
C4_MissingItemSkipsPairOnly ==
    /\ \A p \in EmittedPairs :
          p.winner_id \in DOMAIN item_map /\ p.loser_id \in DOMAIN item_map
    /\ (EntryDone /\ \E m \in 1..Len(raw) : ~InCatalog(m)) =>
          \A a, b \in 1..Len(raw) :
              (/\ ExpectedRank(a) < ExpectedRank(b)
               /\ InCatalog(a) /\ InCatalog(b)
               /\ StrictlyAdmissible(a, b))
              => EmittedTimes(a, b) >= 1

\* rankings with a missing item ranked between two catalog items, whose pair is
\* emitted
C4_Witness ==
    /\ EntryDone
    /\ Len(raw) = 3
    /\ \E m \in 1..3 : ~InCatalog(m) /\ ExpectedRank(m) = 2
    /\ Len(EntryPairs) = 1

\* C5: the output holds a group for a query exactly when a pair of that query
\* was admitted: no group is empty, no query has two groups, and a query with
\* fewer than two ranked results has no group.
C5_GroupIffAdmitted ==
    /\ \A g \in 1..Len(grouped_causal_data) : grouped_causal_data[g].pairs # <<>>
    /\ \A g, h \in 1..Len(grouped_causal_data) :
          grouped_causal_data[g].query = grouped_causal_data[h].query => g = h
    /\ EntryDone =>
          ((\E g \in 1..Len(grouped_causal_data) : grouped_causal_data[g].query = entry.query)
           <=> (\E a, b \in 1..Len(raw) :
                   /\ ExpectedRank(a) < ExpectedRank(b)
                   /\ InCatalog(a) /\ InCatalog(b)
                   /\ Admitted(raw[a].visibility_score, raw[b].visibility_score,
                               PropensityOfId(raw[a].item_id))))
    /\ (EntryDone /\ Len(raw) < 2) =>
          \A g \in 1..Len(grouped_causal_data) : grouped_causal_data[g].query # entry.query
    /\ causal_pairs_file.written =>
          /\ causal_pairs_file.data = grouped_causal_data
          /\ \A g \in 1..Len(causal_pairs_file.data) : causal_pairs_file.data[g].pairs # <<>>

\* the file was written with a group for the first and the third query and none
\* for the second, which had one ranked result
C5_Witness ==
    /\ causal_pairs_file.written
    /\ Len(causal_pairs_file.data) = 2
    /\ causal_pairs_file.data[1].query = "q1"
    /\ causal_pairs_file.data[2].query = "q3"

\* C6: every emitted pair has loser_rank > winner_rank, so the selector's
\* rank_gap is at least 1 and its opportunity score is positive.
C6_RankGapPositive ==
    \A p \in EmittedPairs :
        /\ p.loser_rank > p.winner_rank
        /\ RankGap(p) >= 1
        /\ FloatGreater(OpportunityScore(p), FloatOf(0))

\* pairs with rank gaps 1 and 2 were emitted for one query
C6_Witness ==
    /\ \E p \in EmittedPairs : RankGap(p) = 1
    /\ \E p \in EmittedPairs : RankGap(p) = 2

\* the exact product of two numbers of up to nine digits, in base 10^4
LongProduct(a, b) ==
    LET digits == <<a \div Fine, (a \div Base) % Base, a % Base>>
    IN DecAdd(DecMulInt(digits \o <<0>>, b \div Base),
              DecMulInt(<<0>> \o digits, b % Base))

\* 1.0 in units 10^-16, in base 10^4
LongOne == <<Base, 0, 0, 0>>

\* C7: an emitted pair carries the propensity computed for its winner and the
\* weight 1 / winner_propensity (the reciprocal, to the last digit kept), so of
\* two pairs the one with the lower winner propensity has the larger weight.
C7_InversePropensityWeight ==
    /\ \A p \in EmittedPairs :
          /\ p.winner_id \in DOMAIN item_map
          /\ p.winner_propensity = PropensityOfId(p.winner_id)
          /\ p.winner_propensity > 0
          /\ ~DecLess(LongOne, LongProduct(p.weight, p.winner_propensity))
          /\ DecLess(LongOne, LongProduct(p.weight + 1, p.winner_propensity))
    /\ \A p1, p2 \in EmittedPairs :
          p1.winner_propensity < p2.winner_propensity => p1.weight > p2.weight

\* two pairs of one query whose winners differ in propensity
C7_Witness ==
    \E p1, p2 \in EmittedPairs :
        /\ p1.winner_propensity < p2.winner_propensity
        /\ p1.weight > p2.weight
        /\ p1.loser_id = p2.loser_id

(***************************************************************************)
(* The selector's claims.  The pairs file holds the pairs read, the        *)
(* candidates of the group in progress are `candidates`, and the finished  *)
(* groups are in candidates_by_query and in the candidates file.           *)
(***************************************************************************)
HasDiagnosis(query, l_id) == <<query, l_id>> \in DOMAIN ValidRules(rules)

\* the first n pairs of a group that can yield a candidate for the loser l_id
Qualifying(g, n, l_id) ==
    {k \in 1..n : /\ g.pairs[k].loser_id = l_id
                  /\ g.pairs[k].loser_rank > TOP_RANK
                  /\ HasDiagnosis(g.query, l_id)}

\* the candidate c is built from a pair of highest rank_gap x weight among the
\* first n pairs of the group g
BuiltFromBest(c, g, n) ==
    \E k \in Qualifying(g, n, c.item_id) :
        /\ g.pairs[k].winner_id = c.beaten_by
        /\ \A m \in Qualifying(g, n, c.item_id) :
              ~FloatGreater(OpportunityScore(g.pairs[m]), OpportunityScore(g.pairs[k]))

GroupOfQuery(query) ==
    causal_pairs_file.data[CHOOSE g \in 1..Len(causal_pairs_file.data) :
                               causal_pairs_file.data[g].query = query]

\* C8 (as claimed): the candidate retained for a loser is the one built from
\* the pair with the highest opportunity_score = rank_gap x weight among the
\* loser's pairs, in whatever order the pairs are processed.
C8_TrueMaxRetained ==
    /\ (pc = "select" /\ group_idx < Len(causal_pairs_file.data)) =>
          \A k \in 1..Len(candidates) :
              BuiltFromBest(candidates[k], CurrentGroup, pair_idx)
    /\ candidates_file.written =>
          \A q \in 1..Len(candidates_file.data) :
              \A k \in 1..Len(candidates_file.data[q].candidates) :
                  LET g == GroupOfQuery(candidates_file.data[q].query)
                  IN BuiltFromBest(candidates_file.data[q].candidates[k], g, Len(g.pairs))

NoRepeatedItem(cands) ==
    \A a, b \in 1..Len(cands) : cands[a].item_id = cands[b].item_id => a = b

\* C9: a query's candidate list holds at most one candidate per item_id, after
\* any number and order of pairs.
C9_OneCandidatePerItem ==
    /\ NoRepeatedItem(candidates)
    /\ \A q \in 1..Len(candidates_by_query) :
          NoRepeatedItem(candidates_by_query[q].candidates)
    /\ \A q \in 1..Len(candidates_file.data) :
          NoRepeatedItem(candidates_file.data[q].candidates)

\* a loser had three qualifying pairs, a later one replaced the first, and the
\* file holds one candidate for it
C9_Witness ==
    /\ candidates_file.written
    /\ Len(candidates_file.data) = 1
    /\ LET g == causal_pairs_file.data[1]
           cands == candidates_file.data[1].candidates
       IN /\ Cardinality(Qualifying(g, Len(g.pairs), "E")) = 3
          /\ \E k \in 1..Len(cands) :
                /\ cands[k].item_id = "E"
                /\ cands[k].beaten_by # g.pairs[1].winner_id

\* C10: no candidate has current_rank <= 3: a pair whose loser is ranked 1, 2 or
\* 3 neither produces nor replaces a candidate.
C10_NoTopRankedCandidate ==
    /\ \A k \in 1..Len(candidates) : candidates[k].current_rank > TOP_RANK
    /\ \A q \in 1..Len(candidates_by_query) :
          \A k \in 1..Len(candidates_by_query[q].candidates) :
              candidates_by_query[q].candidates[k].current_rank > TOP_RANK
    /\ \A q \in 1..Len(candidates_file.data) :
          \A k \in 1..Len(candidates_file.data[q].candidates) :
              candidates_file.data[q].candidates[k].current_rank > TOP_RANK

\* a pair whose loser is ranked third and has a diagnosis was processed, its
\* score the highest of the query, and the file holds only the other loser
C10_Witness ==
    /\ candidates_file.written
    /\ Len(candidates_file.data) = 1
    /\ Len(candidates_file.data[1].candidates) = 1
    /\ LET g == causal_pairs_file.data[1]
       IN \E k \in 1..Len(g.pairs) :
             /\ g.pairs[k].loser_rank = TOP_RANK
             /\ HasDiagnosis(g.query, g.pairs[k].loser_id)
             /\ \A m \in 1..Len(g.pairs) :
                   m # k => FloatGreater(OpportunityScore(g.pairs[k]),
                                         OpportunityScore(g.pairs[m]))

SortedByScore(cands) ==
    \A a, b \in 1..Len(cands) :
        a < b => cands[a].opportunity_score >= cands[b].opportunity_score

\* C11: in the output of select_targets each query's candidate list is ordered
\* by opportunity_score descending, and a query with no surviving candidate
\* has no key in the output mapping.
C11_SortedNoEmptyKey ==
    /\ \A q \in 1..Len(candidates_by_query) :
          /\ SortedByScore(candidates_by_query[q].candidates)
          /\ candidates_by_query[q].candidates # <<>>
    /\ \A q \in 1..Len(candidates_file.data) :
          /\ SortedByScore(candidates_file.data[q].candidates)
          /\ candidates_file.data[q].candidates # <<>>
    /\ (pc = "select" /\ group_idx = 1 /\ candidates_by_query # <<>>) =>
          \E k \in 1..Len(causal_pairs_file.data[1].pairs) :
              LET p == causal_pairs_file.data[1].pairs[k]
              IN p.loser_rank > TOP_RANK /\ HasDiagnosis("q1", p.loser_id)

\* the pairs produced two candidates in ascending order of score, and the file
\* lists the one produced last first
C11_Witness ==
    /\ candidates_file.written
    /\ Len(candidates_file.data) = 1
    /\ LET g == causal_pairs_file.data[1]
           cands == candidates_file.data[1].candidates
       IN /\ Len(g.pairs) = 2
          /\ Len(cands) = 2
          /\ cands[1].item_id = g.pairs[2].loser_id
          /\ cands[2].item_id = g.pairs[1].loser_id
          /\ cands[1].opportunity_score > cands[2].opportunity_score

\* the candidate c of a query carries the fields of a diagnosis of the rules
\* file made for that query and for the candidate's item as the loser
FromRuleOf(c, query) ==
    \E k \in 1..Len(rules) :
        /\ rules[k].source_query = query
        /\ LoserOfSig(rules[k].source_pair) = c.item_id
        /\ c.diagnosis_summary = rules[k].gap_analysis
        /\ c.suggested_principle = rules[k].generalized_principle

\* C12: a candidate for (query, loser) exists only if the rules file holds a
\* diagnosis whose source_query is that query and whose source_pair names that
\* loser, and the candidate's diagnosis fields come from such a rule.
C12_CandidateHasOwnDiagnosis ==
    /\ (pc = "select" /\ group_idx < Len(causal_pairs_file.data)) =>
          \A k \in 1..Len(candidates) : FromRuleOf(candidates[k], CurrentGroup.query)
    /\ \A q \in 1..Len(candidates_by_query) :
          \A k \in 1..Len(candidates_by_query[q].candidates) :
              FromRuleOf(candidates_by_query[q].candidates[k], candidates_by_query[q].query)
    /\ \A q \in 1..Len(candidates_file.data) :
          \A k \in 1..Len(candidates_file.data[q].candidates) :
              FromRuleOf(candidates_file.data[q].candidates[k], candidates_file.data[q].query)

\* both queries have a pair lost by E, the only diagnosis of E is for q2, and
\* the file holds a candidate for q2 alone
C12_Witness ==
    /\ candidates_file.written
    /\ \E k \in 1..Len(causal_pairs_file.data[1].pairs) :
          causal_pairs_file.data[1].pairs[k].loser_id = "E"
    /\ \E k \in 1..Len(causal_pairs_file.data[2].pairs) :
          causal_pairs_file.data[2].pairs[k].loser_id = "E"
    /\ \E k \in 1..Len(rules) : LoserOfSig(rules[k].source_pair) = "E"
    /\ \A k \in 1..Len(rules) : rules[k].source_query = "q2"
    /\ Len(candidates_file.data) = 1
    /\ candidates_file.data[1].query = "q2"
    /\ candidates_file.data[1].candidates[1].item_id = "E"

(***************************************************************************)
(* The brand analyzer's claims                                             *)
(***************************************************************************)
\* C13 (as claimed): the key get_brand_score looks a product's brand up under
\* equals normalize_brand of that brand, the key the product was counted under
\* when the popularity map was built.
C13_SameKeyInScorerAndFilter ==
    (brand_keys.raw_brands # <<>> /\ brand_keys.lookup # None) =>
        brand_keys.lookup.text = brand_keys.raw_brands[1]

\* C14 (as claimed): normalize_brand(normalize_brand(x)) = normalize_brand(x)
\* for every brand x, None and the empty string included.
C14_NormalizeIdempotent ==
    brand_keys.renormalized # None => brand_keys.renormalized = brand_keys.normalized

\* C15 (as claimed): every entry of the brand map has count >= 1 and a score
\* in [0,1]; count 1 scores exactly 0.0; with every brand unique all scores are
\* 0.0; with max count > 1 the most frequent brand scores exactly 1.0 and a
\* brand with a smaller count > 1 scores strictly less.
C15_Original ==
    brand_popularity.written =>
        LET m == brand_popularity.data
            max_count == MaxFreq(brand_counts)
        IN \A b \in DOMAIN m :
              /\ m[b].count >= 1
              /\ m[b].popularity_score >= 0 /\ m[b].popularity_score <= Scale
              /\ m[b].count = 1 => m[b].popularity_score = 0
              /\ (max_count > 1 /\ m[b].count = max_count) => m[b].popularity_score = Scale
              /\ (m[b].count > 1 /\ m[b].count < max_count) => m[b].popularity_score < Scale

\* C15 (amended): as above, but a brand with a smaller count > 1 scores no
\* more than 1.0 and at least as much as any brand with a lower count, strictly
\* less than 1.0 when its count is at most half the maximum; a count within
\* rounding distance of the maximum (2999 of 3000) scores 1.0 too.
C15_PopularityScores ==
    brand_popularity.written =>
        LET m == brand_popularity.data
            max_count == MaxFreq(brand_counts)
        IN /\ DOMAIN m = DOMAIN brand_counts
           /\ \A b \in DOMAIN m :
                 /\ m[b].count = brand_counts[b]
                 /\ m[b].count >= 1
                 /\ m[b].popularity_score >= 0 /\ m[b].popularity_score <= Scale
                 /\ m[b].count = 1 => m[b].popularity_score = 0
                 /\ (max_count > 1 /\ m[b].count = max_count) =>
                        m[b].popularity_score = Scale
                 /\ (m[b].count > 1 /\ 2 * m[b].count <= max_count) =>
                        m[b].popularity_score < Scale
                 /\ \A c \in DOMAIN m :
                        m[c].count < m[b].count =>
                            m[c].popularity_score <= m[b].popularity_score

\* a map with a unique brand, a brand of count 2 and the top brand of count 4
C15_Witness ==
    /\ brand_popularity.written
    /\ DOMAIN brand_popularity.data = BrandKeys
    /\ brand_popularity.data[Unknown].count = 1
    /\ brand_popularity.data[KeySolimo].count = 2
    /\ brand_popularity.data[KeySamsung].count = 4
    /\ brand_popularity.data[KeySolimo].popularity_score = 5000

(***************************************************************************)
(* The propensity model's claims                                           *)
(***************************************************************************)
PropensitiesDone == Len(propensities) = 2

\* C16 (as claimed): raising any one of text_length, brand_score or rating,
\* the other two fixed, strictly raises the propensity, text lengths beyond
\* max_len and ratings below 3.0 included, and the result is strictly between
\* 0 and 1.
C16_Original ==
    PropensitiesDone =>
        /\ propensities[1] < propensities[2]
        /\ \A k \in 1..2 : propensities[k] > 0 /\ propensities[k] < Fine

\* C16 (amended): raising one factor never lowers the propensity; it strictly
\* raises it for a brand_score, for a text length raised from below max_len and
\* for a rating raised to above 3.0, and leaves it unchanged for a text length
\* raised from max_len or more and a rating raised to 3.0 or less; the result
\* is strictly between 0 and 1.
C16_PropensityMonotone ==
    PropensitiesDone =>
        LET a == prop_args[1]
            b == prop_args[2]
            clipped == \/ a.text_len < b.text_len /\ a.text_len >= MAX_LEN
                       \/ a.rating_val < b.rating_val /\ b.rating_val <= 30
        IN /\ clipped => propensities[1] = propensities[2]
           /\ ~clipped => propensities[1] < propensities[2]
           /\ \A k \in 1..2 : propensities[k] > 0 /\ propensities[k] < Fine

\* a text length raised from 1000 to 2500 characters raised the propensity
C16_Witness ==
    /\ PropensitiesDone
    /\ prop_args[1].text_len = 1000
    /\ prop_args[2].text_len = 2500
    /\ propensities[1] < propensities[2]

\* C17 (as claimed): the rating fed to the propensity model is the item's
\* simulated rating if present, otherwise its real rating, otherwise the
\* default 4.0; stated on the propensity recorded for the winner of a pair.
C17_RatingResolution ==
    \A p \in EmittedPairs :
        p.winner_id \in DOMAIN item_map =>
            LET full_data == item_map[p.winner_id]
                rating == IF "sim_rating" \in DOMAIN full_data THEN full_data.sim_rating
                          ELSE IF "rating" \in DOMAIN full_data THEN full_data.rating
                          ELSE DEFAULT_RATING
            IN p.winner_propensity =
                 calculate_propensity(full_data.features_len, get_brand_score(full_data),
                                      rating)

(***************************************************************************)
(* The visibility scorer's claims                                          *)
(***************************************************************************)
VisibilityDone == pc = "visibility_done"

\* the indices (from 0) of the sentences that contain the id
MentionedIn(sentences, id) ==
    {i \in 0..(Len(sentences) - 1) : Contains(sentences[i + 1], id)}

Brackets(sent) == Cardinality({k \in 1..Len(sent) : sent[k] = "["})

\* the index of the sentence that cites the id alone, or -1: the id is in this
\* sentence and in no other, and the sentence has at most one marker and no
\* other id
CitedAloneAt(sentences, id) ==
    LET at == MentionedIn(sentences, id)
    IN IF Cardinality(at) # 1 THEN -1
       ELSE LET i == CHOOSE k \in at : TRUE
            IN IF /\ Brackets(sentences[i + 1]) <= 1
                  /\ \A other \in ScoredIds \ {id} : ~Contains(sentences[i + 1], other)
               THEN i ELSE -1

\* exp(-i / n) from the series of exp, to 24 decimals
WeightOf(i, n) == ExpNeg(i, Max(n, 1), 1, 7)

\* exp(-i / n) exceeds exp(-j / n) by more than 10^-4 (10^-4 + 10^-20, which
\* is beyond the error of the series)
WeightsApart(i, j, n) ==
    DecLess(DecAdd(WeightOf(j, n), <<0, 1, 0, 0, 0, 1, 0>>), WeightOf(i, n))

\* score, in ten-thousandths, is 1/c of exp(-i / n) rounded to 4 decimals:
\* c * score is within c / 2 of 10^4 * exp(-i / n)
ShareOfWeight(score, c, i, n) ==
    LET w == DecToFine(WeightOf(i, n))
        v == c * score * Scale
    IN v - w <= c * (Scale \div 2) + 1 /\ w - v <= c * (Scale \div 2) + 1

\* the scores of two ids cited alone, the first in an earlier sentence than
\* the second, satisfy Ordered(first score, second score, i, j, n)
EarlierLater(sentences, Ordered(_, _, _, _, _)) ==
    \A a, b \in ScoredIds :
        LET i == CitedAloneAt(sentences, a)
            j == CitedAloneAt(sentences, b)
        IN (0 <= i /\ i < j) =>
              Ordered(visibility[a], visibility[b], i, j, Len(sentences))

\* what C18 states apart from the order of two scores: 0.0 for empty or null
\* text and for an id in no sentence, no negative score, and 1/c of the
\* positional weight for an id in one sentence of c markers
ZeroAndShare(sentences) ==
    /\ Falsy(response_text) => \A id \in ScoredIds : visibility[id] = 0
    /\ ~Falsy(response_text) =>
          \A id \in ScoredIds :
              LET at == MentionedIn(sentences, id)
              IN /\ at = {} => visibility[id] = 0
                 /\ Cardinality(at) = 1 =>
                       LET i == CHOOSE k \in at : TRUE
                           c == Brackets(sentences[i + 1])
                       IN c >= 1 => ShareOfWeight(visibility[id], c, i, Len(sentences))
    /\ \A id \in ScoredIds : visibility[id] >= 0

StrictlyLarger(first, second, i, j, n) == first > second

LargerByWeight(first, second, i, j, n) ==
    /\ first >= second
    /\ WeightsApart(i, j, n) => first > second

\* C18 (as claimed): calculate_visibility_score returns 0.0 for empty or null
\* text and for an id contained in no sentence, is never negative, gives an
\* item cited alone in an earlier sentence a strictly larger score than an item
\* cited alone in a later one, and gives an item mentioned in one sentence with
\* c bracket markers 1/c of that sentence's positional weight.
C18_Original ==
    VisibilityDone =>
        LET sentences == IF Falsy(response_text) THEN <<>>
                         ELSE SplitSentences(response_text.text)
        IN /\ ZeroAndShare(sentences)
           /\ ~Falsy(response_text) => EarlierLater(sentences, StrictlyLarger)

\* C18: calculate_visibility_score returns 0.0 for empty or null text and for
\* an id contained in no sentence, is never negative, gives an item cited alone
\* in an earlier sentence a score that is not smaller than that of an item
\* cited alone in a later one, and strictly larger when the positional weights
\* of the two sentences differ by more than 0.0001, and gives an item mentioned
\* in one sentence with c bracket markers 1/c of that sentence's positional
\* weight, rounded to 4 decimals.
C18_VisibilityScore ==
    VisibilityDone =>
        LET sentences == IF Falsy(response_text) THEN <<>>
                         ELSE SplitSentences(response_text.text)
        IN /\ ZeroAndShare(sentences)
           /\ ~Falsy(response_text) => EarlierLater(sentences, LargerByWeight)

\* in the long text A is cited alone in one sentence and B alone in the next,
\* their weights are less than 0.0001 apart and their scores are equal, and C,
\* cited alone in the first sentence, scores more than both
C18_Witness ==
    /\ VisibilityDone
    /\ ~Falsy(response_text)
    /\ LET sentences == SplitSentences(response_text.text)
       IN /\ Len(sentences) = LongSentences
          /\ CitedAloneAt(sentences, <<"C">>) = 0
          /\ CitedAloneAt(sentences, <<"A">>) = TiedSentence
          /\ CitedAloneAt(sentences, <<"B">>) = TiedSentence + 1
          /\ ~WeightsApart(TiedSentence, TiedSentence + 1, LongSentences)
          /\ WeightsApart(0, TiedSentence, LongSentences)
    /\ visibility[<<"A">>] = visibility[<<"B">>]
    /\ visibility[<<"A">>] > 0
    /\ visibility[<<"C">>] = Scale

(***************************************************************************)
(* The explainer's claims                                                  *)
(***************************************************************************)
\* C19 (as claimed): after any sequence of runs, resumed ones included, no two
\* entries of the rules file have the same generalized_principle, and a run
\* after a completed run, the LLM answering the same, adds no entry.
C19_GlobalDedup ==
    /\ \A a, b \in 1..Len(rules) :
          rules[a].generalized_principle = rules[b].generalized_principle => a = b
    /\ rules_after_complete >= 0 => Len(rules) = rules_after_complete

\* C20 (as claimed): a run issues no LLM call for a pair that an earlier run
\* processed to an outcome: a new rule, a rule rejected as a duplicate, or no
\* gap found.
C20_NoRecomputation ==
    \A i, j \in 1..Len(llm_calls) :
        ~ /\ llm_calls[i].run < llm_calls[j].run
          /\ llm_calls[i].query = llm_calls[j].query
          /\ llm_calls[i].pair_signature = llm_calls[j].pair_signature
          /\ llm_calls[i].outcome \in {"new_rule", "duplicate", "no_gap"}

\* C21 (as claimed): whenever the run has stopped, by completing or by being
\* interrupted at any point, load_existing_progress recovers from the rules file
\* every rule that an incremental save had written: none is lost or discarded.
C21_ProgressPersisted ==
    pc = "explain_start" =>
        \A r \in persisted :
            \E k \in 1..Len(load_existing_progress(rules_file)) :
                load_existing_progress(rules_file)[k] = r

\* the signature of the pair the run is about to process, when there is one
AtPair ==
    /\ pc = "explain"
    /\ ex_group < Len(causal_pairs_file.data)
    /\ ex_pair < Len(ExGroup.pairs)

CurrentSignature ==
    PairSignature(ExGroup.pairs[ex_pair + 1].winner_id, ExGroup.pairs[ex_pair + 1].loser_id)

HasRuleFor(signature) == \E k \in 1..Len(rules) : rules[k].source_pair = signature

\* C30: over all queries and runs the rules hold at most one rule per
\* (winner_id, loser_id) signature, in memory and in the rules file, and a pair
\* whose signature already has a rule, under whatever query, is passed over with
\* no LLM call and no new rule.
C30_OneRulePerSignature ==
    /\ [](/\ \A a, b \in 1..Len(rules) :
               rules[a].source_pair = rules[b].source_pair => a = b
          /\ \A a, b \in 1..Len(rules_file.data) :
               rules_file.data[a].source_pair = rules_file.data[b].source_pair => a = b)
    /\ [][(AtPair /\ HasRuleFor(CurrentSignature))
             => (llm_calls' = llm_calls /\ rules' = rules)]_vars

\* the rule of q1 for A over B is recorded and the run has passed q2's A over B
\* without a call for q2
C30_Witness ==
    /\ pc = "explain"
    /\ ex_group = Len(causal_pairs_file.data)
    /\ \E k \in 1..Len(rules_file.data) :
          /\ rules_file.data[k].source_pair = PairSignature("A", "B")
          /\ rules_file.data[k].source_query = "q1"
    /\ \A c \in 1..Len(llm_calls) : llm_calls[c].query # "q2"

(***************************************************************************)
(* Ranks and catalog-missing items                                         *)
(***************************************************************************)
\* the input entries ranked above the k-th one, with and without a catalog record
CatalogAbove(k) == {m \in 1..Len(raw) : InCatalog(m) /\ ExpectedRank(m) < ExpectedRank(k)}

MissingAbove(k) == {m \in 1..Len(raw) : ~InCatalog(m) /\ ExpectedRank(m) < ExpectedRank(k)}

\* the input entries ranked strictly between the a-th and the b-th one
RankedBetween(a, b) ==
    {m \in 1..Len(raw) : ExpectedRank(a) < ExpectedRank(m) /\ ExpectedRank(m) < ExpectedRank(b)}

\* C29: the ranks of an emitted pair are positions in the query's full
\* visibility-sorted list: an item missing from the catalog still takes a
\* position, so a rank is one more than the number of entries above, missing
\* ones included, and the rank gap counts the missing entries ranked between.
C29_RanksCountMissingItems ==
    EntryDone =>
        \A k \in 1..Len(EntryPairs) :
            LET w == IndexOfId(EntryPairs[k].winner_id)
                l == IndexOfId(EntryPairs[k].loser_id)
            IN /\ EntryPairs[k].winner_rank =
                     1 + Cardinality(CatalogAbove(w)) + Cardinality(MissingAbove(w))
               /\ EntryPairs[k].loser_rank =
                     1 + Cardinality(CatalogAbove(l)) + Cardinality(MissingAbove(l))
               /\ EntryPairs[k].loser_rank - EntryPairs[k].winner_rank =
                     1 + Cardinality(RankedBetween(w, l))

\* a pair was emitted with an entry missing from the catalog ranked between its
\* winner and its loser
C29_Witness ==
    /\ EntryDone
    /\ \E k \in 1..Len(EntryPairs) :
          \E m \in RankedBetween(IndexOfId(EntryPairs[k].winner_id),
                                 IndexOfId(EntryPairs[k].loser_id)) :
              /\ ~InCatalog(m)
              /\ EntryPairs[k].loser_rank - EntryPairs[k].winner_rank = 2

(***************************************************************************)
(* _clean_json and surrounding prose                                       *)
(***************************************************************************)
\* the end of the first balanced {...} blob of the text that starts at index a:
\* the first index at which every opened brace is closed
Balance(text, a, b) ==
    Cardinality({i \in a..b : text[i] = "{"}) - Cardinality({i \in a..b : text[i] = "}"})

FirstBalanced(text) ==
    LET opens == {i \in 1..Len(text) : text[i] = "{"}
        a == CHOOSE i \in opens : \A j \in opens : i <= j
        ends == {b \in a..Len(text) : Balance(text, a, b) = 0}
        b == CHOOSE i \in ends : \A j \in ends : i <= j
    IN IF opens = {} \/ ends = {} THEN <<>> ELSE SubSeq(text, a, b)

\* the text contains a JSON object
ContainsObject(text) ==
    \E a, b \in 1..Len(text) : a < b /\ IsObject(SubSeq(text, a, b))

CleanJsonDone == pc = "clean_json_done"

\* C27 (as claimed): for a text whose first balanced {...} blob is a JSON
\* object, whatever prose, braces or further objects surround it, _clean_json
\* returns the parse of that blob; for a text with no JSON object in it,
\* _clean_json returns None; it never raises.
C27_FirstBalancedBlob ==
    CleanJsonDone =>
        /\ IsObject(FirstBalanced(json_text)) =>
              json_result = [kind |-> "value", value |-> Decode(FirstBalanced(json_text))]
        /\ ~ContainsObject(json_text) /\ ~IsValue(json_text) =>
              json_result.kind = "none"
        /\ json_result.kind # "raised"

(***************************************************************************)
(* call_ollama's claims                                                    *)
(***************************************************************************)
OllamaDone == pc = "ollama_done"

Succeeded(i) == requests_made[i].outcome = "ok"

\* C26: call_ollama posts at most `retries` requests; a request that succeeds is
\* the last one posted and its stripped response text is what is returned; when
\* every one of the `retries` requests fails, whatever the failures, the call
\* returns the empty string; and the call always returns.
C26_BoundedRetry ==
    /\ [](/\ Len(requests_made) <= retries
          /\ \A i \in 1..Len(requests_made) :
                Succeeded(i) =>
                    /\ i = Len(requests_made)
                    /\ OllamaDone
                    /\ ollama_result = ResultOf(requests_made[i].response)
          /\ (OllamaDone /\ \A i \in 1..Len(requests_made) : ~Succeeded(i)) =>
                /\ Len(requests_made) = retries
                /\ ollama_result = Str(<<>>))
    /\ <>OllamaDone

\* the default eight requests all failed, in more than one way, and "" came back
C26_Witness ==
    /\ OllamaDone
    /\ retries = RETRIES
    /\ Len(requests_made) = RETRIES
    /\ \A i \in 1..Len(requests_made) : ~Succeeded(i)
    /\ {requests_made[i].outcome : i \in 1..Len(requests_made)} = Failures
    /\ ollama_result = Str(<<>>)

(***************************************************************************)
(* The aggregator's claims                                                 *)
(***************************************************************************)
\* C22 (as claimed): whatever the LLM answers in either phase, run_aggregation
\* is not ended by an exception: it goes on to the remaining batches and
\* clusters and to the writing of the principles file.
C22_NeverAborts == pc # "aggregate_raised"

\* the LLM calls made for a cluster, by phase, as indices of the history
MapCalls(cid) ==
    {i \in 1..Len(agg_calls) : agg_calls[i].cluster_id = cid /\ agg_calls[i].phase = "map"}

ReduceCalls(cid) ==
    {i \in 1..Len(agg_calls) : agg_calls[i].cluster_id = cid /\ agg_calls[i].phase = "reduce"}

\* a response that yields no parsed value
Unparseable(response) == clean_json(response).kind # "value"

\* C23 (as claimed): a batch whose summary is unparseable adds nothing to the
\* findings of the reduce phase, and a cluster contributes a Principle only if
\* some batch summary of it was parseable and its reduce answer was parseable.
C23_FailedUnitNoResult ==
    /\ \A i \in 1..Len(agg_calls) :
          agg_calls[i].phase = "reduce" =>
              Len(agg_calls[i].findings) <=
                  Cardinality({j \in MapCalls(agg_calls[i].cluster_id) :
                                  ~Unparseable(agg_calls[j].response)})
    /\ \A k \in 1..Len(final_principles) :
          /\ \E j \in MapCalls(final_principles[k].cluster_id) :
                ~Unparseable(agg_calls[j].response)
          /\ \A j \in ReduceCalls(final_principles[k].cluster_id) :
                ~Unparseable(agg_calls[j].response)

\* the support counts of a list of principles
SupportCounts(principles) == [k \in 1..Len(principles) |-> principles[k].support_count]

ClusterSizes == [c \in 1..Len(clusters) |-> Len(clusters[c])]

WellSupported(principles) ==
    /\ \A k \in 1..Len(principles) :
          /\ principles[k].support_count = Len(clusters[principles[k].cluster_id + 1])
          /\ principles[k].support_count >= 1
    /\ \A a, b \in 1..Len(principles) :
          principles[a].cluster_id = principles[b].cluster_id => a = b
    /\ SumSeq(SupportCounts(principles)) <= SumSeq(ClusterSizes)

\* C24: every Principle, appended or written to the file, has support_count =
\* the number of diagnoses of its cluster, at least 1; no cluster has two
\* Principles; the support counts sum to at most the number of diagnoses.
C24_SupportCount ==
    /\ WellSupported(final_principles)
    /\ WellSupported(principles_file.data)

\* the file holds the Principles of two clusters, one of them of 16 diagnoses
C24_Witness ==
    /\ principles_file.written
    /\ Len(principles_file.data) = 2
    /\ \E k \in 1..2 : principles_file.data[k].support_count = BATCH_SIZE + 1

\* the clusters run_aggregation is through with
Completed(cid) == cid < cluster_no /\ clusters[cid + 1] # <<>>

\* C25 (as claimed): a cluster of at most 15 diagnoses takes exactly one LLM
\* call, a larger one takes one call per batch and one reduce call.
C25_SingleBatchOneCall ==
    \A cid \in 0..(Len(clusters) - 1) :
        Completed(cid) =>
            LET n == Len(clusters[cid + 1])
                calls == Cardinality(MapCalls(cid)) + Cardinality(ReduceCalls(cid))
            IN IF n <= BATCH_SIZE
               THEN calls = 1
               ELSE calls = NumBatches(clusters[cid + 1]) + 1

\* the diagnoses of a digest, in order
Analyses(digest) == [k \in 1..Len(digest) |-> digest[k].analysis]

\* the digests of the map calls made for a cluster, in call order
MapDigests(cid) ==
    LET IsMapOf(call) == call.cluster_id = cid /\ call.phase = "map"
        calls == SelectSeq(agg_calls, IsMapOf)
    IN [k \in 1..Len(calls) |-> Analyses(calls[k].digest)]

MapPhaseDone(cid) ==
    \/ cid < cluster_no
    \/ cid = cluster_no /\ batch_no = NumBatches(clusters[cid + 1])

\* C28: the map calls of a cluster carry consecutive batches of its diagnoses:
\* each batch has 1 to 15 diagnoses, all but the last have 15, the batches
\* joined in call order are the cluster's diagnoses in their order, and once
\* the map phase is over there are ceil(n / 15) of them covering all n.
C28_MapBatching ==
    \A cid \in 0..(Len(clusters) - 1) :
        LET digests == MapDigests(cid)
            n == Len(clusters[cid + 1])
        IN /\ \A k \in 1..Len(digests) :
                 /\ Len(digests[k]) >= 1
                 /\ Len(digests[k]) <= BATCH_SIZE
                 /\ k < Len(digests) => Len(digests[k]) = BATCH_SIZE
           /\ Len(Concat(digests)) <= n
           /\ Concat(digests) = SubSeq(clusters[cid + 1], 1, Len(Concat(digests)))
           /\ MapPhaseDone(cid) =>
                 /\ Concat(digests) = clusters[cid + 1]
                 /\ Len(digests) * BATCH_SIZE >= n
                 /\ (Len(digests) - 1) * BATCH_SIZE < n

\* a cluster of 31 diagnoses went through the map phase in batches of 15, 15 and 1
C28_Witness ==
    /\ Len(clusters) = 1
    /\ Len(clusters[1]) = 2 * BATCH_SIZE + 1
    /\ MapPhaseDone(0)
    /\ Len(MapDigests(0)) = 3
    /\ Len(MapDigests(0)[3]) = 1

====
